---- MODULE Spec2Model ----
(***************************************************************************)
(* A state-machine model of the FileBasedAgentRuntime orchestrator         *)
(* (src/src/async_agent.py), its stream aggregator                         *)
(* (src/src/stream_processor.py) and the agent tool dispatch               *)
(* (src/src/file_system_agent.py).                                         *)
(*                                                                         *)
(* Strings of the program are modelled as sequences: a text is a sequence  *)
(* of tokens, a JSON document is a sequence of one-character strings, so   *)
(* that "+=" is \o and parsing is computed character by character.         *)
(***************************************************************************)
EXTENDS Integers, Sequences, FiniteSets, TLC

(***************************************************************************)
(* Bounds of the model.                                                    *)
(***************************************************************************)
\* longest message history a run of invoke calls builds
MaxHist == 4
\* history length up to which invoke_stream opens requests and blocks
MaxStreamHist == 3
\* largest max_rounds argument passed to invoke / invoke_with_console
MaxRounds == 2
\* most tool-use blocks the model emits into one history
MaxToolCalls == 2
\* deepest nesting of invoke_stream inside _handle_tool_calls_stream
MaxDepth == 2
\* most content_block_delta events delivered in one turn handed to process_stream
MaxFrags == 2

(***************************************************************************)
(* Generic helpers.                                                        *)
(***************************************************************************)
Last(s) == s[Len(s)]

RECURSIVE Flatten(_)
\* "".join(list of strings)
Flatten(ss) == IF ss = <<>> THEN <<>> ELSE Head(ss) \o Flatten(Tail(ss))


(***************************************************************************)
(* JSON values and json.loads on the document grammar                      *)
(*     value ::= ws ( 1 | {} | {"k": value} ) ws                           *)
(* A document is a sequence of characters.  The result of parsing is a     *)
(* structured value, never the document itself.                            *)
(***************************************************************************)
JNum(n) == [t |-> "num", n |-> n]
JStr(s) == [t |-> "str", s |-> s]
JObj(ks, vs) == [t |-> "obj", keys |-> ks, vals |-> vs]

QUOTE == "\""

RECURSIVE SkipWs(_)
SkipWs(s) == IF s # <<>> /\ Head(s) = " " THEN SkipWs(Tail(s)) ELSE s

StartsWith(s, p) == Len(s) >= Len(p) /\ SubSeq(s, 1, Len(p)) = p
Drop(s, n) == SubSeq(s, n + 1, Len(s))

ParseFail == [ok |-> FALSE, val |-> JNum(0), rest |-> <<>>]

RECURSIVE ParseValue(_)
ParseValue(s0) ==
    LET s == SkipWs(s0) IN
    IF s = <<>> THEN ParseFail
    ELSE IF Head(s) = "1" THEN [ok |-> TRUE, val |-> JNum(1), rest |-> Tail(s)]
    ELSE IF Head(s) = "{" THEN
        LET s1 == SkipWs(Tail(s)) IN
        IF s1 # <<>> /\ Head(s1) = "}"
        THEN [ok |-> TRUE, val |-> JObj(<<>>, <<>>), rest |-> Tail(s1)]
        ELSE IF StartsWith(s1, <<QUOTE, "k", QUOTE>>) THEN
            LET s2 == SkipWs(Drop(s1, 3)) IN
            IF s2 # <<>> /\ Head(s2) = ":" THEN
                LET r == ParseValue(Tail(s2))
                    s3 == SkipWs(r.rest)
                IN  IF r.ok /\ s3 # <<>> /\ Head(s3) = "}"
                    THEN [ok |-> TRUE, val |-> JObj(<<"k">>, <<r.val>>), rest |-> Tail(s3)]
                    ELSE ParseFail
            ELSE ParseFail
        ELSE ParseFail
    ELSE ParseFail

\* json.loads(s): the parsed value, or ok = FALSE for json.JSONDecodeError
JsonLoads(s) ==
    LET r == ParseValue(s) IN
    IF r.ok /\ SkipWs(r.rest) = <<>> THEN [ok |-> TRUE, val |-> r.val]
    ELSE [ok |-> FALSE, val |-> JNum(0)]

(***************************************************************************)
(* Entities (src/src/entities.py).                                         *)
(***************************************************************************)
TextContent(text) == [type |-> "text", text |-> text]
ThinkingContent(thinking) == [type |-> "thinking", thinking |-> thinking]
ToolUseContent(id, name, input) ==
    [type |-> "tool_use", id |-> id, name |-> name, input |-> input]
ToolResultContent(tool_use_id, content) ==
    [type |-> "tool_result", tool_use_id |-> tool_use_id, content |-> content]

\* an Event's content is one bare block or a list of blocks
Single(block) == [single |-> TRUE, blocks |-> <<block>>]
Many(blocks) == [single |-> FALSE, blocks |-> blocks]

Event(id, role, type, content) ==
    [id |-> id, role |-> role, type |-> type, content |-> content]

\* a tool input is a string still being accumulated, or a parsed value
StrInput(s) == [str |-> TRUE, s |-> s, val |-> JNum(0)]
ValInput(v) == [str |-> FALSE, s |-> <<>>, val |-> v]

StopReasons == {"end_turn", "tool_use", "max_tokens", "refusal"}


\* most tokens the runtime's total is followed to
MaxTokens == 2
\* most merges in a row on one Usage object
MaxMerges == 2

\* a counter that is None
None == -1
\* class Usage
Usage(cache_creation, cache_read, input, output) ==
    [cache_creation_input_tokens |-> cache_creation, cache_read_input_tokens |-> cache_read,
     input_tokens |-> input, output_tokens |-> output]
\* x or 0
OrZero(x) == IF x = None THEN 0 ELSE x

\* variant: the output counter takes the other's value
merge_OutputReplaced(self, other) ==
    Usage(IF other.cache_creation_input_tokens # None
          THEN OrZero(self.cache_creation_input_tokens) + other.cache_creation_input_tokens
          ELSE self.cache_creation_input_tokens,
          IF other.cache_read_input_tokens # None
          THEN OrZero(self.cache_read_input_tokens) + other.cache_read_input_tokens
          ELSE self.cache_read_input_tokens,
          IF other.input_tokens # None
          THEN OrZero(self.input_tokens) + other.input_tokens
          ELSE self.input_tokens,
          IF other.output_tokens # None
          THEN other.output_tokens
          ELSE self.output_tokens)
\* Usage.merge
merge(self, other) ==
    Usage(IF other.cache_creation_input_tokens # None
          THEN OrZero(self.cache_creation_input_tokens) + other.cache_creation_input_tokens
          ELSE self.cache_creation_input_tokens,
          IF other.cache_read_input_tokens # None
          THEN OrZero(self.cache_read_input_tokens) + other.cache_read_input_tokens
          ELSE self.cache_read_input_tokens,
          IF other.input_tokens # None
          THEN OrZero(self.input_tokens) + other.input_tokens
          ELSE self.input_tokens,
          IF other.output_tokens # None
          THEN OrZero(self.output_tokens) + other.output_tokens
          ELSE self.output_tokens)

\* the Usage objects merge is tried on: every counter None, 0 or 1
Usages == { Usage(a, b, c, d) : a \in {None, 0, 1}, b \in {None, 0, 1},
                                c \in {None, 0, 1}, d \in {None, 0, 1} }

\* the usage a message_start and a message_delta chunk report
StartReports == { Usage(None, None, 1, 0), Usage(0, 0, 0, 0) }
DeltaReports == { Usage(None, None, None, 1) }
\* a service that counts no tokens
SilentReports == { Usage(None, None, 0, 0) }

\* the total stays within what the model follows
WithinTokens(u) ==
    u.input_tokens <= MaxTokens /\ u.output_tokens <= MaxTokens

(***************************************************************************)
(* Inputs: what a caller passes and what the remote model may answer.      *)
(***************************************************************************)
\* the content argument; the empty text adds no user message
UserContents == {<<>>, <<"hi">>}
\* the text of one model turn
Texts == {<<>>, <<"a">>}
\* the tool calls a model turn may hold: a manifest tool the dispatcher
\* knows (sync_context) and a manifest tool it does not know (shell)
ToolCallKinds ==
    { [name |-> "sync_context",
       input |-> JObj(<<"new_context_content">>, <<JStr(<<"c">>)>>)],
      [name |-> "shell", input |-> JObj(<<"command">>, <<JStr(<<"ls">>)>>)] }
\* the tool-use ids of a turn are unique; the i-th block is named i
ToolCall(id, name, input) == [id |-> id, name |-> name, input |-> input]
ToolCallSeqs ==
    UNION { { [i \in 1..n |-> ToolCall(i, ks[i].name, ks[i].input)] :
                ks \in [1..n -> ToolCallKinds] } :
            n \in 0..MaxToolCalls }

\* src/src/stream_processor.py CompleteResponse, as process_stream returns it
CompleteResponse(text, tool_calls, stop_reason) ==
    [text |-> text, tool_calls |-> tool_calls, stop_reason |-> stop_reason,
     tool_results |-> <<>>]
Responses ==
    { CompleteResponse(t, tc, sr) : t \in Texts, tc \in ToolCallSeqs, sr \in StopReasons }

NoResponse == CompleteResponse(<<>>, <<>>, "none")
DefaultContext == <<"default">>
\* the context when the context document does not exist
NoDocument == <<"(no file)">>

(***************************************************************************)
(* State.                                                                  *)
(***************************************************************************)
VARIABLES
    messages,              \* AsyncAgentRuntime.messages: the Event history
    conversation_history,  \* FileSystemAgent.conversation_history
    context,               \* content of the context window document
    pc,                    \* where the running entry point is
    mode,                  \* which entry point runs: invoke or stream
    max_rounds,            \* the max_rounds argument of the running call
    round_num,             \* the for-loop variable of invoke
    final_response,        \* the CompleteResponse accumulated by invoke
    response,              \* the CompleteResponse of the current round
    tool_results,          \* tool results collected in the current round
    ti,                    \* index of the next tool call to execute
    executed,              \* ids handed to execute_tool in this round, in order
    api_messages,          \* the messages of the last request
    system_prompt,         \* the context interpolated into the last request
    requests,              \* requests issued to the service by the running call
    outcome,               \* how the last call ended: returned or raised
    call_start,            \* length of the history when the running call began
    frames,                \* activations of invoke_stream / _process_stream
    processor,             \* the StreamProcessor instance running process_stream
    wire,                  \* the event stream process_stream consumes, and its caller
    proc,                  \* per PersistentShell: the pexpect process behind self.shell
    run,                   \* per thread: the PersistentShell.execute call it runs
    queue,                 \* work items waiting in the ThreadPoolExecutor
    submitted,             \* commands handed to the StatefulShell so far
    started,               \* ids of the executor's work items in the order they began
    last,                  \* the StatefulShell call that ended last
    current_dir,           \* StatefulShell.current_dir
    closing,               \* the calls of AsyncPersistentShell.close and the executor's
                           \* shutdown
    resolved,              \* the last resolve_agent_path call and how it ended
    links,                 \* the symbolic link inside the sandbox, if one was made
    files,                 \* the regular files of the filesystem: path and content
    fileop,                \* the last read_file / write_file call and how it ended
    archive,               \* storage/history as the direct sync_context calls leave it:
                           \* the archived contexts, by timestamp
    now,                   \* the clock, in seconds
    synced,                \* the direct sync_context calls made so far
    total_usage,           \* AsyncAgentRuntime.total_usage
    usage_call             \* the last Usage.merge call on any two Usage objects

vars == <<messages, conversation_history, context, pc, mode, max_rounds, round_num,
          final_response, response, tool_results, ti, executed, api_messages,
          system_prompt, requests, outcome, call_start, frames, processor, wire,
          proc, run, queue, submitted, started, last, current_dir, resolved, links, files, fileop,
          archive, now, synced, total_usage, usage_call, closing>>

orchVars == <<messages, conversation_history, context, archive, pc, mode, max_rounds, round_num,
              final_response, response, tool_results, ti, executed, api_messages,
              system_prompt, requests, outcome, call_start, frames>>
shellVars == <<proc, run, queue, submitted, started, last, current_dir, closing>>
\* what the orchestrator's steps leave alone
restVars == <<processor, wire, shellVars, resolved, links, files, fileop, now, synced, usage_call>>
nonOrchVars == <<restVars, total_usage>>
\* what the aggregator's steps leave alone
nonAggVars == <<orchVars, shellVars, resolved, links, files, fileop, now, synced,
                total_usage, usage_call>>
\* what the steps of the sessions' execute leave alone
nonShellVars == <<orchVars, processor, wire, resolved, links, files, fileop, now, synced,
                  total_usage, usage_call, closing>>
\* what the path manager's steps leave alone
nonPathVars == <<orchVars, processor, wire, shellVars, now, synced, total_usage, usage_call>>

agentVars == <<conversation_history, context, archive>>
roundVars == <<response, tool_results, ti, executed>>
requestVars == <<api_messages, system_prompt, requests>>

(***************************************************************************)
(* Event.transform_api and AsyncAgentRuntime.create_event.                 *)
(***************************************************************************)
\* a tool_use block as sent: a string input is parsed, or wrapped as {"text": ...}
ApiBlock(item) ==
    IF item.type = "tool_use" /\ item.input.str
    THEN LET r == JsonLoads(item.input.s) IN
         [item EXCEPT !.input =
            IF r.ok THEN ValInput(r.val)
            ELSE ValInput(JObj(<<"text">>, <<JStr(item.input.s)>>))]
    ELSE item

transform_api(ev) ==
    [role |-> ev.role,
     content |-> [i \in 1..Len(ev.content.blocks) |-> ApiBlock(ev.content.blocks[i])]]

\* the history with one more Event, numbered by its position
create_event(msgs, role, type, content) ==
    Append(msgs, Event(Len(msgs), role, type, content))

\* the tool-use blocks a history holds
RECURSIVE ToolUseCount(_)
ToolUseCount(msgs) ==
    IF msgs = <<>> THEN 0
    ELSE ToolUseCount(Tail(msgs)) +
         Cardinality({i \in 1..Len(Head(msgs).content.blocks) :
                        Head(msgs).content.blocks[i].type = "tool_use"})

(***************************************************************************)
(* FileSystemAgent.execute_tool: the dispatch of one tool call.  fail is   *)
(* the environment's choice that a known tool fails internally.            *)
(***************************************************************************)
tool_mapping == {"read_file", "write_file", "list_directory", "execute_command",
                 "sync_context"}

\* ToolsRegistry.get_all_tools: the names of the tools offered to the model
ToolManifest == {"shell", "edit_file", "create_file", "sync_context"}

HistRecord(type, tool) == [type |-> type, tool |-> tool]

HasKey(input, k) == \E i \in 1..Len(input.keys) : input.keys[i] = k
ValueOf(input, k) == input.vals[CHOOSE i \in 1..Len(input.keys) : input.keys[i] = k]

\* FileSystemAgent._sync_context: replace the context document and
\* truncate the working log
sync_context_result ==
    [isdict |-> TRUE, keys |-> {"status", "message", "new_context_lines", "archive_path"},
     text |-> <<"status: success">>]

\* variant: the new content is added to the document
write_text_Append(old, new) == old \o new
\* context_path.write_text(new_context_content)
write_text(old, new) == new

execute_tool(tool_name, params, fail, hist, ctx) ==
    LET h1 == Append(hist, HistRecord("tool_call", tool_name)) IN
    IF tool_name \notin tool_mapping
    THEN [raised |-> TRUE, exc_type |-> "ValueError",
          error |-> <<"Unknown tool: ", tool_name>>,
          result |-> sync_context_result, hist |-> h1, ctx |-> ctx]
    ELSE IF fail \/ ~(tool_name = "sync_context" /\ HasKey(params, "new_context_content"))
    THEN [raised |-> TRUE, exc_type |-> IF fail THEN "OSError" ELSE "TypeError",
          error |-> <<tool_name, " failed">>,
          result |-> sync_context_result,
          hist |-> Append(h1, HistRecord("tool_error", tool_name)), ctx |-> ctx]
    ELSE [raised |-> FALSE, exc_type |-> "none", error |-> <<>>,
          result |-> sync_context_result,
          hist |-> <<HistRecord("tool_result", tool_name)>>,
          ctx |-> write_text(ctx, ValueOf(params, "new_context_content").s)]

\* archive_path.write_text(old_context): the file context_<timestamp>.md is
\* made, or written over when it is there
Snapshot(arch, stamp, old_context) ==
    {a \in arch : a.stamp # stamp} \cup {[stamp |-> stamp, content |-> old_context]}

\* whether the call wrote the archive file: it does when the context
\* document exists, unless the call failed before it came to that
Writes(tool_name, params, r, old_context) ==
    IF ~(tool_name = "sync_context" /\ HasKey(params, "new_context_content"))
       \/ old_context = NoDocument
    THEN {FALSE}
    ELSE IF r.raised THEN BOOLEAN ELSE {TRUE}

\* AsyncAgentRuntime._format_tool_result
format_tool_result(result) ==
    IF result.isdict
    THEN IF "content" \in result.keys THEN <<"str(content)">>
         ELSE IF "stdout" \in result.keys THEN <<"Exit code: ">> \o result.text
         ELSE <<"json: ">> \o result.text
    ELSE result.text

\* the content recorded for a tool call whose execution raised
\* f"Tool execution error: {e!s}\n\n...{traceback.format_exc()}"
ToolErrorContent(error) == <<"Tool execution error: ">> \o error \o <<"traceback">>

\* one pass of the try/except around execute_tool
ToolResultFor(tool_call, r) ==
    ToolResultContent(tool_call.id,
        IF r.raised THEN ToolErrorContent(r.error) ELSE format_tool_result(r.result))

(***************************************************************************)
(* AsyncAgentRuntime.invoke and invoke_with_console.  Both run the same    *)
(* loop, statement for statement; invoke_with_console also hands every     *)
(* stream event to the console handler and prints.  The actions below are  *)
(* the steps of either.                                                    *)
(***************************************************************************)

Returned(value) == [kind |-> "returned", value |-> value]
Raised == [kind |-> "raised", value |-> NoResponse]
NoOutcome == [kind |-> "none", value |-> NoResponse]

\* variant: the loop bound taken inclusively (range(max_rounds + 1))
RoundsRemain_Inclusive(rn, mr) == rn + 1 <= mr
\* for round_num in range(max_rounds): is there an iteration after this one
RoundsRemain(rn, mr) == rn + 1 < mr

\* variant: the batch walked from its end
NextToolCall_Reversed(tool_calls, i) == tool_calls[Len(tool_calls) + 1 - i]
\* for tool_call in response.tool_calls: the i-th tool call executed
NextToolCall(tool_calls, i) == tool_calls[i]

\* variant: a handler that takes only I/O and type errors
CatchesToolError_NoValueError(exc_type) == exc_type \in {"TypeError", "OSError"}
\* except Exception: the exception classes the handler around execute_tool takes
CatchesToolError(exc_type) == exc_type \in {"ValueError", "TypeError", "OSError"}

\* variant: only truncation ends the loop
StopsAfterTools_MaxTokensOnly(stop_reason) == stop_reason \in {"max_tokens"}
\* if response.stop_reason in [StopReason.MaxTokens, StopReason.Refusal]: break
StopsAfterTools(stop_reason) == stop_reason \in {"max_tokens", "refusal"}

\* variant: the text of the last round only (final_response.text = response.text)
AccumulateText_Overwrite(text, more) == more
\* final_response.text += response.text
AccumulateText(text, more) == text \o more

\* the assistant content built from a turn: the text, then the tool uses
AssistantContent(resp) ==
    (IF resp.text # <<>> THEN <<TextContent(resp.text)>> ELSE <<>>) \o
    [i \in 1..Len(resp.tool_calls) |->
        ToolUseContent(resp.tool_calls[i].id, resp.tool_calls[i].name,
                       ValInput(resp.tool_calls[i].input))]

\* variant: one block of any kind is stored bare
AssistantEventContent_AnySingle(blocks) ==
    IF Len(blocks) = 1 THEN Single(blocks[1]) ELSE Many(blocks)
\* a single TextContent is stored bare, anything else as a list
AssistantEventContent(blocks) ==
    IF Len(blocks) = 1 /\ blocks[1].type = "text" THEN Single(blocks[1]) ELSE Many(blocks)

\* entry of invoke / invoke_with_console up to the for statement
Invoke(content, mr) ==
    /\ pc = "idle"
    /\ Len(messages) + (IF content # <<>> THEN 1 ELSE 0) + 2 * mr <= MaxHist
    /\ mode' = "invoke"
    /\ max_rounds' = mr
    /\ round_num' = 0
    /\ call_start' = Len(messages)
    /\ messages' = IF content # <<>>
                   THEN create_event(messages, "user", "message", Single(TextContent(content)))
                   ELSE messages
    /\ final_response' = CompleteResponse(<<>>, <<>>, "none")
    /\ response' = NoResponse
    /\ tool_results' = <<>>
    /\ ti' = 1
    /\ executed' = <<>>
    /\ requests' = 0
    /\ api_messages' = <<>>
    /\ system_prompt' = <<>>
    /\ IF mr > 0
       THEN pc' = "round" /\ outcome' = NoOutcome
       ELSE pc' = "idle" /\ outcome' = Returned(final_response')
    /\ UNCHANGED <<agentVars, frames>>
    /\ UNCHANGED nonOrchVars

\* variant: the context loaded for the first round is kept for the call
load_system_context_Once(ctx, loaded) == IF loaded = <<>> THEN ctx ELSE loaded
\* AsyncAgentRuntime._load_system_context: the context document is read;
\* loaded is the system prompt of the round before
load_system_context(ctx, loaded) == ctx

\* variant: the request is built from the history short of its last Event
ApiMessages_Stale(msgs) ==
    [i \in 1..(IF msgs = <<>> THEN 0 ELSE Len(msgs) - 1) |-> transform_api(msgs[i])]
\* api_messages = [msg.transform_api() for msg in self.messages]
ApiMessages(msgs) == [i \in 1..Len(msgs) |-> transform_api(msgs[i])]

\* top of the loop body: load the system context, build and open the request
OpenRound ==
    /\ pc = "round"
    /\ mode = "invoke"
    /\ system_prompt' = load_system_context(context, system_prompt)
    /\ api_messages' = ApiMessages(messages)
    /\ requests' = requests + 1
    /\ pc' = "stream"
    /\ UNCHANGED <<messages, agentVars, mode, max_rounds, round_num, final_response,
                   roundVars, outcome, call_start, frames>>
    /\ UNCHANGED nonOrchVars

\* the stream (or, in invoke_with_console, the console callback) raises:
\* nothing in invoke catches it
StreamRaises ==
    /\ pc = "stream"
    /\ mode = "invoke"
    /\ pc' = "idle"
    /\ outcome' = Raised
    /\ UNCHANGED <<messages, agentVars, mode, max_rounds, round_num, final_response,
                   roundVars, requestVars, call_start, frames>>
    /\ UNCHANGED nonOrchVars

\* process_stream returned resp: accumulate, append the assistant Event,
\* leave the loop when the turn holds no tool call
TurnResponse(resp) ==
    /\ pc = "stream"
    /\ mode = "invoke"
    /\ ToolUseCount(messages) + Len(resp.tool_calls) <= MaxToolCalls
    /\ response' = resp
    /\ LET blocks == AssistantContent(resp)
           fr == [final_response EXCEPT
                    !.text = AccumulateText(@, resp.text),
                    !.stop_reason = resp.stop_reason]
       IN /\ messages' = IF blocks # <<>>
                         THEN create_event(messages, "assistant", "message",
                                           AssistantEventContent(blocks))
                         ELSE messages
          /\ IF resp.tool_calls = <<>>
             THEN /\ final_response' = fr
                  /\ pc' = "idle"
                  /\ outcome' = Returned(fr)
             ELSE /\ final_response' = [fr EXCEPT !.tool_calls = @ \o resp.tool_calls]
                  /\ pc' = "tools"
                  /\ outcome' = outcome
    /\ tool_results' = <<>>
    /\ ti' = 1
    /\ executed' = <<>>
    /\ UNCHANGED <<agentVars, mode, max_rounds, round_num, requestVars, call_start, frames>>
    /\ UNCHANGED nonOrchVars

\* one iteration of the loop over response.tool_calls
ExecToolCall(fail) ==
    /\ pc = "tools"
    /\ mode = "invoke"
    /\ ti <= Len(response.tool_calls)
    /\ LET tool_call == NextToolCall(response.tool_calls, ti)
           r == execute_tool(tool_call.name, tool_call.input, fail,
                             conversation_history, context)
       IN /\ executed' = Append(executed, tool_call.id)
          /\ conversation_history' = r.hist
          /\ context' = r.ctx
          /\ archive' = archive
          /\ IF r.raised /\ ~CatchesToolError(r.exc_type)
             THEN /\ pc' = "idle"
                  /\ outcome' = Raised
                  /\ UNCHANGED <<tool_results, ti>>
             ELSE /\ tool_results' = Append(tool_results, ToolResultFor(tool_call, r))
                  /\ ti' = ti + 1
                  /\ UNCHANGED <<pc, outcome>>
    /\ UNCHANGED <<messages, mode, max_rounds, round_num, final_response, response,
                   requestVars, call_start, frames>>
    /\ UNCHANGED nonOrchVars

\* after the last tool call: append the tool_result Event, then either
\* break, start the next iteration, or fall out of the loop
AppendToolResults ==
    /\ pc = "tools"
    /\ mode = "invoke"
    /\ ti > Len(response.tool_calls)
    /\ messages' = create_event(messages, "user", "tool_result", Many(tool_results))
    /\ final_response' = [final_response EXCEPT
            !.tool_results = @ \o [i \in 1..Len(tool_results) |-> tool_results[i].content]]
    /\ IF ~StopsAfterTools(response.stop_reason) /\ RoundsRemain(round_num, max_rounds)
       THEN /\ round_num' = round_num + 1
            /\ pc' = "round"
            /\ outcome' = outcome
       ELSE /\ round_num' = round_num
            /\ pc' = "idle"
            /\ outcome' = Returned(final_response')
    /\ UNCHANGED <<agentVars, mode, max_rounds, roundVars, requestVars, call_start, frames>>
    /\ UNCHANGED nonOrchVars

(***************************************************************************)
(* AsyncAgentRuntime.invoke_stream, _process_stream and                    *)
(* _handle_tool_calls_stream.  A frame is one activation of invoke_stream: *)
(* cur is the position in the history of current_event (0 for None),       *)
(* tool_uses the positions of the tool-use Events collected so far, phase  *)
(* the place of the remote stream in its protocol.                         *)
(***************************************************************************)
Frame(cur, tool_uses, phase) == [cur |-> cur, tool_uses |-> tool_uses, phase |-> phase]

Top == frames[Len(frames)]
SetTop(f) == [frames EXCEPT ![Len(frames)] = f]
Pop == SubSeq(frames, 1, Len(frames) - 1)

BlockKinds == {"text", "thinking", "tool_use"}
\* names a tool-use block may carry
BlockToolNames == {"sync_context", "shell"}
\* a text_delta or thinking_delta fragment
TextDeltas == {<<"a">>}
\* the tool-input documents the service streams, and the fragments it cuts
\* them into
StreamDocs == {<<"{", "}">>}
JsonDeltas == {<<"{">>, <<"}">>, <<"{", "}">>}
IsDocPrefix(s) == \E d \in StreamDocs : StartsWith(d, s)

\* the generator of the innermost invoke_stream is exhausted: the caller
\* (an outer _handle_tool_calls_stream, or the consumer) goes on
Resume(rest) ==
    /\ frames' = rest
    /\ IF rest = <<>>
       THEN pc' = "idle" /\ outcome' = Returned(NoResponse)
       ELSE pc' = "s_chunk" /\ outcome' = outcome

\* entry of invoke_stream called by a consumer
InvokeStream(content) ==
    /\ pc = "idle"
    /\ Len(messages) < MaxStreamHist
    /\ mode' = "stream"
    /\ call_start' = Len(messages)
    /\ messages' = IF content # <<>>
                   THEN create_event(messages, "user", "message", Single(TextContent(content)))
                   ELSE messages
    /\ frames' = <<>>
    /\ requests' = 0
    /\ pc' = "s_open"
    /\ outcome' = NoOutcome
    /\ response' = NoResponse
    /\ tool_results' = <<>>
    /\ ti' = 1
    /\ executed' = <<>>
    /\ max_rounds' = 0
    /\ round_num' = 0
    /\ final_response' = NoResponse
    /\ api_messages' = <<>>
    /\ system_prompt' = <<>>
    /\ UNCHANGED agentVars
    /\ UNCHANGED nonOrchVars

\* load the system context, build the request, open the stream
StreamOpen ==
    /\ pc = "s_open"
    /\ Len(messages) < MaxStreamHist
    /\ Len(frames) < MaxDepth
    /\ system_prompt' = context
    /\ api_messages' = [i \in 1..Len(messages) |-> transform_api(messages[i])]
    /\ requests' = requests + 1
    /\ frames' = Append(frames, Frame(0, <<>>, "start"))
    /\ pc' = "s_chunk"
    /\ UNCHANGED <<messages, agentVars, mode, max_rounds, round_num, final_response,
                   roundVars, outcome, call_start>>
    /\ UNCHANGED nonOrchVars

\* except Exception in invoke_stream: an exception raised while the stream
\* is opened or consumed becomes an error Event and ends this activation
StreamError ==
    /\ pc \in {"s_open", "s_chunk"}
    /\ messages' = create_event(messages, "assistant", "error",
                                Single(TextContent(<<"Error: ">>)))
    /\ Resume(IF pc = "s_chunk" THEN Pop ELSE frames)
    /\ UNCHANGED <<agentVars, mode, max_rounds, round_num, final_response, roundVars,
                   requestVars, call_start>>
    /\ UNCHANGED nonOrchVars

\* chunk message_start
MessageStart(usage) ==
    /\ pc = "s_chunk"
    /\ Top.phase = "start"
    /\ WithinTokens(merge(total_usage, usage))
    /\ total_usage' = merge(total_usage, usage)
    /\ frames' = SetTop(Frame(0, Top.tool_uses, "blocks"))
    /\ UNCHANGED <<messages, agentVars, pc, mode, max_rounds, round_num, final_response,
                   roundVars, requestVars, outcome, call_start>>
    /\ UNCHANGED restVars

\* chunk content_block_start: the Event that accumulates the block
BlockStartEvent(kind, name, id) ==
    CASE kind = "text" -> [type |-> "message", content |-> Single(TextContent(<<>>))]
      [] kind = "thinking" -> [type |-> "thinking", content |-> Single(ThinkingContent(<<>>))]
      [] kind = "tool_use" ->
            [type |-> "tool_use",
             content |-> Many(<<ToolUseContent(id, name, StrInput(<<>>))>>)]

ContentBlockStart(kind, name) ==
    /\ pc = "s_chunk"
    /\ Top.phase = "blocks"
    /\ Len(messages) < MaxStreamHist
    /\ kind = "tool_use" => ToolUseCount(messages) < MaxToolCalls
    /\ LET e == BlockStartEvent(kind, name, Len(Top.tool_uses) + 1) IN
       messages' = create_event(messages, "assistant", e.type, e.content)
    /\ frames' = SetTop(Frame(Len(messages'), Top.tool_uses, "open"))
    /\ UNCHANGED <<agentVars, pc, mode, max_rounds, round_num, final_response,
                   roundVars, requestVars, outcome, call_start>>
    /\ UNCHANGED nonOrchVars

\* current_event.content.text += delta.text, on the Event held by the history
AddText(msgs, cur, delta) ==
    [msgs EXCEPT ![cur].content.blocks[1].text = @ \o delta]
AddThinking(msgs, cur, delta) ==
    [msgs EXCEPT ![cur].content.blocks[1].thinking = @ \o delta]
\* last_content.input = last_content.input + delta.partial_json
AddPartialJson(msgs, cur, delta) ==
    [msgs EXCEPT ![cur].content.blocks[1].input =
        IF @.str THEN StrInput(@.s \o delta) ELSE StrInput(delta)]

\* chunk content_block_delta of the kind of the open block
ContentBlockDelta(delta) ==
    /\ pc = "s_chunk"
    /\ Top.phase = "open"
    /\ LET cur == Top.cur
           type == messages[cur].type
       IN CASE type = "message" ->
                 /\ delta \in TextDeltas
                 /\ Len(messages) < MaxStreamHist
                 /\ messages' = AddText(
                        create_event(messages, "assistant", "message",
                                     Single(TextContent(delta))), cur, delta)
            [] type = "thinking" ->
                 /\ delta \in TextDeltas
                 /\ Len(messages) < MaxStreamHist
                 /\ messages' = AddThinking(
                        create_event(messages, "assistant", "thinking",
                                     Single(ThinkingContent(delta))), cur, delta)
            [] type = "tool_use" ->
                 /\ delta \in JsonDeltas
                 /\ IsDocPrefix(messages[cur].content.blocks[1].input.s \o delta)
                 /\ messages' = AddPartialJson(messages, cur, delta)
    /\ UNCHANGED <<agentVars, pc, mode, max_rounds, round_num, final_response,
                   roundVars, requestVars, outcome, call_start, frames>>
    /\ UNCHANGED nonOrchVars

\* json.loads of the accumulated input, or the INVALID_JSON wrapper
ParseStreamInput(input) ==
    IF input.str
    THEN LET r == JsonLoads(input.s) IN
         IF r.ok THEN ValInput(r.val)
         ELSE ValInput(JObj(<<"INVALID_JSON">>, <<JStr(input.s)>>))
    ELSE input

\* chunk content_block_stop
ContentBlockStop ==
    /\ pc = "s_chunk"
    /\ Top.phase = "open"
    /\ LET cur == Top.cur IN
       IF messages[cur].type = "tool_use"
       THEN /\ messages' = [messages EXCEPT ![cur].content.blocks[1].input =
                                ParseStreamInput(@)]
            /\ frames' = SetTop(Frame(cur, Append(Top.tool_uses, cur), "blocks"))
       ELSE /\ messages' = messages
            /\ frames' = SetTop(Frame(cur, Top.tool_uses, "blocks"))
    /\ UNCHANGED <<agentVars, pc, mode, max_rounds, round_num, final_response,
                   roundVars, requestVars, outcome, call_start>>
    /\ UNCHANGED nonOrchVars

\* chunk message_delta carrying the stop reason
MessageDelta(stop_reason, usage) ==
    /\ pc = "s_chunk"
    /\ Top.phase = "blocks"
    /\ WithinTokens(merge(total_usage, usage))
    /\ total_usage' = merge(total_usage, usage)
    /\ frames' = SetTop(Frame(Top.cur, Top.tool_uses, "delta_done"))
    /\ messages' = IF stop_reason = "refusal"
                   THEN create_event(messages, "assistant", "error",
                            Single(TextContent(<<"Model refused to generate response">>)))
                   ELSE messages
    /\ IF stop_reason = "tool_use" /\ Top.tool_uses # <<>>
       THEN pc' = "s_tools" /\ tool_results' = <<>> /\ ti' = 1 /\ executed' = <<>>
       ELSE UNCHANGED <<pc, tool_results, ti, executed>>
    /\ UNCHANGED <<agentVars, mode, max_rounds, round_num, final_response, response,
                   requestVars, outcome, call_start>>
    /\ UNCHANGED restVars

\* the parameter mapping of _handle_tool_calls_stream
MappedParams(tool_name, input) ==
    LET tool_params == IF input.str THEN JObj(<<>>, <<>>) ELSE
                       IF input.val.t = "obj" THEN input.val ELSE JObj(<<>>, <<>>)
    IN  IF tool_name = "sync_context"
        THEN JObj(<<"new_context_content">>,
                  <<IF HasKey(tool_params, "new_context_content")
                    THEN ValueOf(tool_params, "new_context_content")
                    ELSE JStr(<<>>)>>)
        ELSE tool_params

\* one iteration of the loop over tool_uses
StreamToolCall(fail) ==
    /\ pc = "s_tools"
    /\ ti <= Len(Top.tool_uses)
    /\ LET tool_use == messages[Top.tool_uses[ti]].content.blocks[1]
           r == execute_tool(tool_use.name, MappedParams(tool_use.name, tool_use.input),
                             fail, conversation_history, context)
       IN /\ executed' = Append(executed, tool_use.id)
          /\ conversation_history' = r.hist
          /\ context' = r.ctx
          /\ archive' = archive
          /\ tool_results' = Append(tool_results, ToolResultFor(tool_use, r))
          /\ ti' = ti + 1
    /\ UNCHANGED <<messages, pc, mode, max_rounds, round_num, final_response, response,
                   requestVars, outcome, call_start, frames>>
    /\ UNCHANGED nonOrchVars

\* append the tool_result Event and continue the conversation: invoke_stream()
StreamToolResults ==
    /\ pc = "s_tools"
    /\ ti > Len(Top.tool_uses)
    /\ messages' = create_event(messages, "user", "tool_result", Many(tool_results))
    /\ pc' = "s_open"
    /\ UNCHANGED <<agentVars, mode, max_rounds, round_num, final_response, roundVars,
                   requestVars, outcome, call_start, frames>>
    /\ UNCHANGED nonOrchVars

\* chunk message_stop: break out of _process_stream
MessageStop ==
    /\ pc = "s_chunk"
    /\ Top.phase = "delta_done"
    /\ Resume(Pop)
    /\ UNCHANGED <<messages, agentVars, mode, max_rounds, round_num, final_response,
                   roundVars, requestVars, call_start>>
    /\ UNCHANGED nonOrchVars

(***************************************************************************)
(* StreamProcessor.process_stream (src/src/stream_processor.py): one model *)
(* turn is reduced, event by event, to a CompleteResponse.  wire is the    *)
(* caller's side: the place of the stream in its protocol, the open block  *)
(* (frags is what its deltas delivered so far, joined in arrival order)    *)
(* and how the call ended.                                                 *)
(***************************************************************************)
\* most content blocks in one turn
MaxBlocks == 2

\* tool-input documents the service streams: {"k":1}, { } with blanks,
\* and 1} which is not JSON; every prefix may be cut off
AggDocs ==
    { <<"{", QUOTE, "k", QUOTE, ":", "1", "}">>,
      <<"{", " ", "}", " ">>,
      <<"1", "}">> }
\* output token counts a message_delta may carry
UsageValues == {2}

NoToolUse == [some |-> FALSE, id |-> 0, name |-> "", input_json |-> <<>>]
NoUsage == [some |-> FALSE, has_input |-> FALSE, input_tokens |-> 0, output_tokens |-> 0]

\* StreamProcessor.reset
reset ==
    [text_buffer |-> <<>>, thinking_buffer |-> <<>>, current_tool_use |-> NoToolUse,
     tool_uses |-> <<>>, stop_reason |-> "none", usage |-> NoUsage]

NoWire ==
    [phase |-> "closed", callback |-> FALSE, kind |-> "none", id |-> 0, name |-> "",
     frags |-> <<>>, blocks |-> 0, deltas |-> 0, outcome |-> NoOutcome]

\* variant: the fragment put in front of what was accumulated
AccumulateJson_Prepend(input_json, partial_json) == partial_json \o input_json
\* self.current_tool_use["input_json"] += delta.partial_json
AccumulateJson(input_json, partial_json) == input_json \o partial_json

\* json.loads of the accumulated string, or the fallback of the except branch
ParseToolInput(input_json) ==
    LET r == JsonLoads(input_json) IN
    IF r.ok THEN r.val
    ELSE JObj(<<"error", "raw">>, <<JStr(<<"Failed to parse input">>), JStr(input_json)>>)

\* the next fragments the service may cut after having delivered acc
NextFragments(acc) ==
    UNION { { SubSeq(d, Len(acc) + 1, b) : b \in Len(acc)..Len(d) } :
            d \in {x \in AggDocs : StartsWith(x, acc)} }

\* a caller hands a stream to process_stream: self.reset()
ProcessStream(callback) ==
    /\ wire.phase = "closed"
    /\ processor' = reset
    /\ wire' = [NoWire EXCEPT !.phase = "start", !.callback = callback]
    /\ UNCHANGED nonAggVars

\* await console_callback(event) raises: process_stream does not catch it
CallbackRaises ==
    /\ wire.phase \notin {"closed"}
    /\ wire.callback
    /\ wire' = [NoWire EXCEPT !.outcome = Raised]
    /\ UNCHANGED <<processor, nonAggVars>>

\* event message_start: the initial usage
OnMessageStart(input_tokens, output_tokens) ==
    /\ wire.phase = "start"
    /\ processor' = [processor EXCEPT !.usage =
            [some |-> TRUE, has_input |-> TRUE, input_tokens |-> input_tokens,
             output_tokens |-> output_tokens]]
    /\ wire' = [wire EXCEPT !.phase = "blocks"]
    /\ UNCHANGED nonAggVars

\* event content_block_start
OnContentBlockStart(kind, name) ==
    /\ wire.phase = "blocks"
    /\ wire.blocks < MaxBlocks
    /\ processor' = IF kind = "tool_use"
                    THEN [processor EXCEPT !.current_tool_use =
                            [some |-> TRUE, id |-> wire.blocks + 1, name |-> name,
                             input_json |-> <<>>]]
                    ELSE processor
    /\ wire' = [wire EXCEPT !.phase = "open", !.kind = kind, !.id = wire.blocks + 1,
                            !.name = IF kind = "tool_use" THEN name ELSE "",
                            !.frags = <<>>, !.blocks = @ + 1]
    /\ UNCHANGED nonAggVars

\* event content_block_delta of the kind of the open block
OnContentBlockDelta(delta) ==
    /\ wire.phase = "open"
    /\ wire.deltas < MaxFrags
    /\ CASE wire.kind = "text" ->
              /\ delta \in TextDeltas
              /\ processor' = [processor EXCEPT !.text_buffer = Append(@, delta)]
         [] wire.kind = "thinking" ->
              /\ delta \in TextDeltas
              /\ processor' = [processor EXCEPT !.thinking_buffer = Append(@, delta)]
         [] wire.kind = "tool_use" ->
              /\ delta \in NextFragments(wire.frags)
              /\ processor' = IF processor.current_tool_use.some
                              THEN [processor EXCEPT !.current_tool_use.input_json =
                                        AccumulateJson(@, delta)]
                              ELSE processor
    /\ wire' = [wire EXCEPT !.frags = @ \o delta, !.deltas = @ + 1]
    /\ UNCHANGED nonAggVars

\* event content_block_stop
OnContentBlockStop ==
    /\ wire.phase = "open"
    /\ processor' =
         IF processor.current_tool_use.some
         THEN [processor EXCEPT
                 !.tool_uses = Append(@,
                     ToolCall(processor.current_tool_use.id, processor.current_tool_use.name,
                              ParseToolInput(processor.current_tool_use.input_json))),
                 !.current_tool_use = NoToolUse]
         ELSE processor
    /\ wire' = [wire EXCEPT !.phase = "blocks"]
    /\ UNCHANGED nonAggVars

\* event message_delta: the stop reason and the output tokens
OnMessageDelta(stop_reason, output_tokens) ==
    /\ wire.phase = "blocks"
    /\ processor' = [processor EXCEPT
            !.stop_reason = stop_reason,
            !.usage = IF @.some THEN [@ EXCEPT !.output_tokens = output_tokens]
                      ELSE [some |-> TRUE, has_input |-> FALSE, input_tokens |-> 0,
                            output_tokens |-> output_tokens]]
    /\ wire' = [wire EXCEPT !.phase = "delta_done"]
    /\ UNCHANGED nonAggVars

\* variant: a tool-use block still open at the end of the stream is emitted too
EmittedToolCalls_WithOpen(p) ==
    IF p.current_tool_use.some
    THEN Append(p.tool_uses, ToolCall(p.current_tool_use.id, p.current_tool_use.name,
                                      ParseToolInput(p.current_tool_use.input_json)))
    ELSE p.tool_uses
\* tool_calls=self.tool_uses
EmittedToolCalls(p) == p.tool_uses

\* the CompleteResponse built after the loop
AggregatedResponse(p) ==
    [text |-> Flatten(p.text_buffer), tool_calls |-> EmittedToolCalls(p),
     stop_reason |-> p.stop_reason, usage |-> p.usage,
     thinking |-> IF p.thinking_buffer # <<>>
                  THEN [some |-> TRUE, text |-> Flatten(p.thinking_buffer)]
                  ELSE [some |-> FALSE, text |-> <<>>]]

\* the stream is exhausted, after message_stop or cut off earlier:
\* process_stream returns
ProcessStreamReturn ==
    /\ wire.phase \in {"start", "blocks", "open", "delta_done"}
    /\ wire' = [NoWire EXCEPT !.outcome = Returned(AggregatedResponse(processor))]
    /\ UNCHANGED <<processor, nonAggVars>>

(***************************************************************************)
(* PathManager.resolve_agent_path (src/src/path_manager.py).  A path is a  *)
(* sequence of characters; "w" stands for the name workspace, "e" for etc, *)
(* "p" for a file name; the project root is /p, the agent root /p/r.       *)
(***************************************************************************)
\* longest virtual path enumerated
MaxPathLen == 4

PathChars == {"/", ".", "w", "e"}

\* /workspace/../../etc/passwd
ScenarioA == <<"/", "w", "/", ".", ".", "/", ".", ".", "/", "e", "/", "p">>

VirtualPaths == UNION {[1..k -> PathChars] : k \in 0..MaxPathLen} \cup {ScenarioA}

\* self.agent_root and self.workspace, as components
AgentRoot == << <<"p">>, <<"r">> >>
Workspace == AgentRoot \o << <<"w">> >>

\* system_dirs (one of them: /etc)
SystemDirs == { <<"/", "e">> }

\* a is the beginning of b, item by item
IsPrefix(a, b) == Len(a) <= Len(b) /\ SubSeq(b, 1, Len(a)) = a

\* sub in s
Contains(s, sub) ==
    \E i \in 1..(Len(s) - Len(sub) + 1) : SubSeq(s, i, i + Len(sub) - 1) = sub

\* s.split("/")
RECURSIVE SplitPath(_)
SplitPath(s) ==
    IF ~Contains(s, <<"/">>) THEN <<s>>
    ELSE LET i == CHOOSE k \in 1..Len(s) : s[k] = "/" /\ \A j \in 1..(k - 1) : s[j] # "/"
         IN  <<SubSeq(s, 1, i - 1)>> \o SplitPath(SubSeq(s, i + 1, Len(s)))

\* s.lstrip("/")
RECURSIVE LStripSlash(_)
LStripSlash(s) == IF s # <<>> /\ Head(s) = "/" THEN LStripSlash(Tail(s)) ELSE s

\* a symbolic link: the place of the link and what it points to, both as
\* components from /
NoLink == [at |-> <<>>, to |-> <<>>]

\* the layouts: one link in the workspace, pointing into the sandbox, at the
\* sandbox root, at a directory outside, at the project root, or at a
\* sibling of the sandbox root whose name begins with the root's name
LinkTargets ==
    { Workspace \o << <<"w">> >>, AgentRoot, << <<"e">> >>, << <<"p">> >>,
      << <<"p">>, <<"r", "2">> >> }
Layouts == { [at |-> Workspace \o << <<"e">> >>, to |-> to] : to \in LinkTargets }

\* Path.resolve(): base / segments, "." and empty segments dropped, ".."
\* taking the last component off (none above /), a component that is a
\* symbolic link replaced by the link's target
RECURSIVE ResolveFrom(_, _, _)
ResolveFrom(base, segs, fs) ==
    IF segs = <<>> THEN base
    ELSE LET seg == Head(segs) IN
         ResolveFrom(IF seg = <<>> \/ seg = <<".">> THEN base
                     ELSE IF seg = <<".", ".">>
                          THEN (IF base = <<>> THEN base ELSE SubSeq(base, 1, Len(base) - 1))
                          ELSE IF fs # NoLink /\ Append(base, seg) = fs.at THEN fs.to
                          ELSE Append(base, seg),
                     Tail(segs), fs)

\* str(path)
RenderPath(comps) ==
    IF comps = <<>> THEN <<"/">>
    ELSE Flatten([i \in 1..Len(comps) |-> <<"/">> \o comps[i]])

\* variant: every virtual path is taken from the sandbox root
BaseOf_Root(agent_path) == AgentRoot
\* the directory a virtual path is joined to: agent_root for an absolute
\* path, workspace for a relative one
BaseOf(agent_path) == IF StartsWith(agent_path, <<"/">>) THEN AgentRoot ELSE Workspace

\* variant: only a path that begins with .. is taken for a traversal
HasDotDot_Leading(agent_path) == StartsWith(agent_path, <<".", ".">>)
\* if ".." in agent_path
HasDotDot(agent_path) == Contains(agent_path, <<".", ".">>)

PathRaised(path, error, fs) ==
    [path |-> path, kind |-> "raised", error |-> error, fs |-> fs, result |-> <<>>]
PathReturned(path, result) ==
    [path |-> path, kind |-> "returned", error |-> "none", fs |-> TRUE, result |-> result]
NoResolve == [path |-> <<>>, kind |-> "none", error |-> "none", fs |-> FALSE, result |-> <<>>]

\* PathManager.resolve_agent_path; fs tells whether the filesystem was
\* consulted (Path.resolve) before the call ended
resolve_agent_path(agent_path, fs) ==
    IF HasDotDot(agent_path)
    THEN PathRaised(agent_path, "Path traversal not allowed", FALSE)
    ELSE IF \E d \in SystemDirs : StartsWith(agent_path, d)
    THEN PathRaised(agent_path, "Access to system directory not allowed", FALSE)
    ELSE LET resolved_path ==
                ResolveFrom(BaseOf(agent_path),
                            SplitPath(IF StartsWith(agent_path, <<"/">>)
                                      THEN LStripSlash(agent_path) ELSE agent_path),
                            fs)
             parent == IF resolved_path = <<>> THEN <<>>
                       ELSE SubSeq(resolved_path, 1, Len(resolved_path) - 1)
         IN  IF StartsWith(RenderPath(resolved_path), RenderPath(AgentRoot))
             THEN PathReturned(agent_path, resolved_path)
             ELSE IF ~StartsWith(RenderPath(parent), RenderPath(AgentRoot))
             THEN PathRaised(agent_path, "Path escapes agent root directory", TRUE)
             ELSE PathReturned(agent_path, resolved_path)

\* a caller resolves a virtual path (the function keeps no state: one call
\* per run shows all it does)
ResolveAgentPath(agent_path) ==
    /\ resolved.kind = "none"
    /\ resolved' = resolve_agent_path(agent_path, links)
    /\ UNCHANGED <<nonPathVars, links, files, fileop>>

\* a symbolic link is made inside the sandbox (ln -s through the shell, or by
\* whoever prepares the sandbox)
MakeSymlink(l) ==
    /\ links = NoLink
    /\ resolved.kind = "none"
    /\ links' = l
    /\ UNCHANGED <<nonPathVars, resolved, files, fileop>>

(***************************************************************************)
(* Shell sessions (src/src/persistent_shell.py, src/src/stateful_shell.py). *)
(* A StatefulShell holds two PersistentShell objects: the one inside its   *)
(* AsyncPersistentShell ("async", driven by the executor's worker thread)  *)
(* and its own ("sync", driven by the thread calling execute_sync).  What  *)
(* pexpect's expect reports at each wait is the environment's choice.      *)
(***************************************************************************)
\* most commands handed to one StatefulShell
MaxCmds == 2
\* most processes one PersistentShell spawns
MaxSpawns == 2
\* most line and timeout reports in one wait loop
MaxWaits == 2

Sessions == {"async", "sync"}

\* variant: an executor with two worker threads
ExecutorWorkers_Two == {"w1", "w2"}
\* ThreadPoolExecutor(max_workers=1)
ExecutorWorkers == {"w1"}

Threads == ExecutorWorkers \cup {"caller"}
SessionOf(t) == IF t = "caller" THEN "sync" ELSE "async"

\* commands by what they do to the shell: print and return, change directory,
\* never return, ask for input, end the shell, end the shell after having
\* printed a prompt, match a destructive pattern (two), read a file outside
\* the sandbox by its absolute path or by a traversal
Commands ==
    {"pwd", "cd_sub", "hang", "ask", "exit", "die_late", "rm_rf",
     "sudo", "cat_etc", "cat_sibling", "cat_up", "cat_up_sibling"}

\* command.split(): the tokens of each command, a token being a string
CommandText(cmd) ==
    CASE cmd = "pwd" -> << <<"pwd">> >>
      [] cmd = "cd_sub" -> << <<"cd">>, <<"s">> >>
      [] cmd = "hang" -> << <<"/", "bin", "/", "sleep">>, <<"9">> >>
      [] cmd = "ask" -> << <<"ssh">>, <<"h">> >>
      [] cmd = "exit" -> << <<"exit">> >>
      [] cmd = "die_late" -> << <<"printf">>, <<"$">>, <<";">>, <<"exit">> >>
      [] cmd = "rm_rf" -> << <<"rm">>, <<"-", "rf">>, <<"/">> >>
      [] cmd = "sudo" -> << <<"SUDO">>, <<"ls">> >>
      [] cmd = "cat_etc" -> << <<"cat">>, <<"/", "e", "/", "p">> >>
      [] cmd = "cat_sibling" -> << <<"cat">>, <<"/", "p", "/", "r", "2", "/", "x">> >>
      [] cmd = "cat_up" -> << <<"cat">>, <<".", ".", "/", ".", ".", "/", "e">> >>
      [] cmd = "cat_up_sibling" -> << <<"cat">>, <<".", ".", "/", "r", "2", "/", "x">> >>
      [] cmd = "echo_marker" ->
            << <<"echo">>, <<"EXIT_CODE:", "7">>, <<";">>, <<"false">> >>
      [] cmd = "printf_marker" -> << <<"printf">>, <<"EXIT_CODE:", "7">> >>
      [] cmd = "late_marker" ->
            << <<"printf">>, <<"$">>, <<";">>, <<"sleep">>, <<"1">>, <<";">>,
               <<"echo">>, <<"EXIT_CODE:", "7">>, <<";">>, <<"false">> >>
      [] OTHER -> <<>>

\* commands that print the text of the exit-code marker: a whole line of
\* it, the same with no line end, the same after a text that ends like a
\* prompt and a pause
MarkerCommands == {"echo_marker", "printf_marker", "late_marker"}
OutputCommands == {"pwd", "cd_sub"} \cup MarkerCommands

\* the exit status of each command ($? after it)
ExitStatus(cmd) == IF cmd \in {"echo_marker", "late_marker"} THEN 1 ELSE 0

\* the lines a command prints while the wait loop reads, each ended by a
\* line end; pwd's are drawn by the loop
PrintedLines(cmd) ==
    IF cmd = "echo_marker" THEN << <<"EXIT_CODE:", "7">> >> ELSE <<>>
\* what a command prints last with no line end
Unterminated(cmd) == IF cmd = "printf_marker" THEN <<"EXIT_CODE:", "7">> ELSE <<>>
\* whether the prompt the wait loop finds is text of the command
FalsePrompt(cmd) == cmd \in {"late_marker", "die_late"}
\* the lines a command prints after that text
LateLines(cmd) == IF cmd = "late_marker" THEN << <<"EXIT_CODE:", "7">> >> ELSE <<>>

\* env['PS1'] = '\\u@\\h:\\w\\]\\$ ': what the prompt shows before "$ "
PromptPrefix == <<"u@h:w">>

\* the line echo "EXIT_CODE:$?" prints
Digits == <<"0", "1", "2", "3", "4", "5", "6", "7", "8", "9">>
MarkerLine(status) == <<"EXIT_CODE:", Digits[status + 1]>>
DigitValue(d) == (CHOOSE i \in 1..Len(Digits) : Digits[i] = d) - 1
IsDigit(d) == \E i \in 1..Len(Digits) : Digits[i] = d

\* re.search(r'EXIT_CODE:(\d+)', line)
HasMarker(line) ==
    \E k \in 1..(Len(line) - 1) : line[k] = "EXIT_CODE:" /\ IsDigit(line[k + 1])
MarkerValue(line) ==
    LET k == CHOOSE k \in 1..(Len(line) - 1) :
                /\ line[k] = "EXIT_CODE:" /\ IsDigit(line[k + 1])
                /\ \A j \in 1..(k - 1) : ~(line[j] = "EXIT_CODE:" /\ IsDigit(line[j + 1]))
    IN  DigitValue(line[k + 1])

\* self.shell.expect(r'EXIT_CODE:(\d+)') and int(self.shell.match.group(1)):
\* the first match in what the process sends from then on
ExtractExitCode(stream) ==
    LET i == CHOOSE i \in 1..Len(stream) :
                HasMarker(stream[i]) /\ \A j \in 1..(i - 1) : ~HasMarker(stream[j])
    IN  MarkerValue(stream[i])

\* if output_lines and output_lines[-1].strip().startswith('EXIT_CODE:'):
\*     output_lines.pop()
StripMarker(output_lines) ==
    IF output_lines # <<>> /\ Last(output_lines) # <<>>
       /\ Head(Last(output_lines)) = "EXIT_CODE:"
    THEN SubSeq(output_lines, 1, Len(output_lines) - 1)
    ELSE output_lines

\* before = self.shell.before at the prompt; if before: output_lines.extend(
\* before.split('\n')) (the line ends were matched before it)
AddBefore(output_lines, before) ==
    IF before # <<>> THEN Append(output_lines, before) ELSE output_lines

\* the directory a recorded working directory names
DirPath(dir) == IF dir = "sub" THEN AgentRoot \o << <<"s">> >> ELSE AgentRoot

\* PersistentShell.INTERACTIVE_PATTERNS (two of them)
InteractivePatterns == {"[Pp]assword:", "(y/n)"}

\* re.IGNORECASE, on the words of the commands
Lower(c) ==
    CASE c = "SUDO" -> "sudo"
      [] c = "RM" -> "rm"
      [] c = "RF" -> "rf"
      [] OTHER -> c

\* StatefulShell.DANGEROUS_PATTERNS (three of them)
DangerousPatterns == {"rm -rf /", "sudo", "shutdown|reboot|halt|poweroff"}

\* regex.search(command): a word is one item of a token
Matches(pattern, tokens) ==
    CASE pattern = "rm -rf /" ->
            \E i \in 1..(Len(tokens) - 2) :
                /\ Lower(Last(tokens[i])) = "rm"
                /\ [k \in 1..Len(tokens[i + 1]) |-> Lower(tokens[i + 1][k])] = <<"-", "rf">>
                /\ Head(tokens[i + 2]) = "/"
      [] pattern = "sudo" ->
            \E i \in 1..Len(tokens) : \E k \in 1..Len(tokens[i]) :
                Lower(tokens[i][k]) = "sudo"
      [] OTHER ->
            \E i \in 1..Len(tokens) : \E k \in 1..Len(tokens[i]) :
                Lower(tokens[i][k]) \in {"shutdown", "reboot", "halt", "poweroff"}

\* safe_prefixes (two of them)
SafePrefixes == { <<"/", "bin">>, <<"/", "tmp">> }

Safe == [safe |-> TRUE, why |-> "none"]
Unsafe(why) == [safe |-> FALSE, why |-> why]

\* the body of the loop over the tokens, for one token
TokenSafety(token, dir) ==
    IF StartsWith(token, <<"-">>) THEN Safe
    ELSE IF /\ StartsWith(token, <<"/">>)
            /\ ~StartsWith(token, RenderPath(AgentRoot))
            /\ ~\E prefix \in SafePrefixes : StartsWith(token, prefix)
    THEN Unsafe("Path outside agent_root")
    ELSE IF /\ Contains(token, <<".", ".">>)
            /\ ~StartsWith(RenderPath(ResolveFrom(IF StartsWith(token, <<"/">>)
                                                  THEN <<>> ELSE DirPath(dir),
                                                  SplitPath(token), links)),
                           RenderPath(AgentRoot))
    THEN Unsafe("Path traversal outside agent_root")
    ELSE Safe

\* variant: the tokens are examined before the destructive patterns
check_command_safety_TokensFirst(cmd) ==
    LET tokens == CommandText(cmd)
        bad == {i \in 1..Len(tokens) : ~TokenSafety(tokens[i], current_dir).safe}
    IN  IF bad # {}
        THEN TokenSafety(tokens[CHOOSE i \in bad : \A j \in bad : i <= j], current_dir)
        ELSE IF \E pattern \in DangerousPatterns : Matches(pattern, tokens)
        THEN Unsafe("Dangerous command pattern detected")
        ELSE Safe
\* StatefulShell._check_command_safety
check_command_safety(cmd) ==
    LET tokens == CommandText(cmd)
        bad == {i \in 1..Len(tokens) : ~TokenSafety(tokens[i], current_dir).safe}
    IN  IF \E pattern \in DangerousPatterns : Matches(pattern, tokens)
        THEN Unsafe("Dangerous command pattern detected")
        ELSE IF bad # {}
        THEN TokenSafety(tokens[CHOOSE i \in bad : \A j \in bad : i <= j], current_dir)
        ELSE Safe

ShellResult(stdout, stderr, exit_code, cwd) ==
    [stdout |-> stdout, stderr |-> stderr, exit_code |-> exit_code, cwd |-> cwd]
NoResult == ShellResult(<<>>, <<>>, 0, "none")

ShReturned(result) == [kind |-> "returned", value |-> result, exc |-> "none"]
ShRaised(exc) == [kind |-> "raised", value |-> NoResult, exc |-> exc]
ShNone == [kind |-> "none", value |-> NoResult, exc |-> "none"]

BlockedResult(why) == ShellResult(<<>>, <<"Command blocked: ", why>>, 1, "root")
TimedOutResult(lines) == ShellResult(lines, <<"Command timed out">>, -1, "root")
TerminatedResult(lines) == ShellResult(lines, <<"Shell process terminated">>, -1, "root")
\* variant: the stderr does not name the pattern
InteractiveResult_NoPattern(lines, pattern, cwd) ==
    ShellResult(lines, <<"Interactive command detected. Command cancelled.">>, 130, cwd)
InteractiveResult(lines, pattern, cwd) ==
    ShellResult(lines, <<"Interactive command detected: ", pattern, ". Command cancelled.">>,
                130, cwd)
ErrorResult(cwd) == ShellResult(<<>>, <<"Error executing command: ">>, -1, cwd)

\* pexpect.spawn('/bin/bash', cwd=str(self.working_dir), ...)
SpawnedProcess(gen) == [alive |-> TRUE, gen |-> gen + 1, cwd |-> "root"]
CanSpawn(p) == p.gen < MaxSpawns
\* PersistentShell._initialize_shell: a new process, or an exception of the
\* spawn or of the wait for the first prompt
initialize_shell(p, ok) ==
    IF ok THEN SpawnedProcess(p.gen) ELSE [p EXCEPT !.alive = FALSE]

\* most calls of AsyncPersistentShell.close
MaxCloses == 2
NoClose == [calls |-> 0, waiting |-> FALSE, shutdown |-> FALSE]

\* what an expect reports once close has ended the process under a running
\* command: the read fails (EOF), or self.shell is None by then
\* (AttributeError); which one is a race between the two threads
ClosedOutcomes == {"eof", "none_shell"}
\* the process of thread t's session was ended by close
ClosedUnder(t) == ~proc[SessionOf(t)].alive

Run(id, cmd, at) ==
    [pc |-> at, id |-> id, cmd |-> cmd, trace |-> <<>>, lines |-> <<>>,
     printed |-> <<>>, pattern |-> "none", interrupts |-> 0]
NoRun == Run(0, "none", "idle")

NoLast ==
    [id |-> 0, cmd |-> "none", thread |-> "none", trace |-> <<>>, interrupts |-> 0,
     printed |-> <<>>, ps |-> ShNone, st |-> ShNone]

\* variant: a handler that takes the timeout and spawn exceptions only
CatchesShellError_NoEOF(exc) == exc \in {"ExceptionPexpect", "AttributeError", "RuntimeError"}
\* except Exception as e, around the call of the session's execute
CatchesShellError(exc) ==
    exc \in {"EOF", "ExceptionPexpect", "AttributeError", "RuntimeError"}

\* what StatefulShell.execute (a worker thread ran the command) or
\* execute_sync (the caller ran it) makes of the session's outcome
StatefulOutcome(t, ps) ==
    IF ps.kind = "raised" /\ CatchesShellError(ps.exc)
    THEN ShReturned(ErrorResult(IF t = "caller" THEN current_dir ELSE "root"))
    ELSE ps

\* the session's execute ends in thread t; the StatefulShell call around it ends
EndCall(t, r, ps, p) ==
    /\ run' = [run EXCEPT ![t] = NoRun]
    /\ proc' = [proc EXCEPT ![SessionOf(t)] = p]
    /\ last' = [id |-> r.id, cmd |-> r.cmd, thread |-> t, trace |-> r.trace,
                interrupts |-> r.interrupts, printed |-> r.printed, ps |-> ps,
                st |-> StatefulOutcome(t, ps)]
    /\ current_dir' = IF ps.kind = "returned" THEN ps.value.cwd ELSE current_dir

\* self._initialize_shell() followed by the return of result
Recover(t, r, result) ==
    /\ CanSpawn(proc[SessionOf(t)])
    /\ \E ok \in BOOLEAN :
          EndCall(t, r, IF ok THEN ShReturned(result) ELSE ShRaised("ExceptionPexpect"),
                  initialize_shell(proc[SessionOf(t)], ok))

\* PersistentShell.execute up to self.shell.sendline(command)
StartCommand(t, id, cmd) ==
    LET p == proc[SessionOf(t)] IN
    IF p.alive
    THEN /\ run' = [run EXCEPT ![t] = Run(id, cmd, "loop")]
         /\ UNCHANGED <<proc, last, current_dir>>
    ELSE /\ CanSpawn(p)
         /\ \E ok \in BOOLEAN :
              IF ok
              THEN /\ run' = [run EXCEPT ![t] = Run(id, cmd, "loop")]
                   /\ proc' = [proc EXCEPT ![SessionOf(t)] = initialize_shell(p, TRUE)]
                   /\ UNCHANGED <<last, current_dir>>
              ELSE EndCall(t, Run(id, cmd, "idle"), ShRaised("ExceptionPexpect"),
                           initialize_shell(p, FALSE))

\* a command rejected by the safety check: nothing reaches a session
Blocked(id, cmd) ==
    last' = [NoLast EXCEPT !.id = id, !.cmd = cmd,
                !.st = ShReturned(BlockedResult(check_command_safety(cmd).why))]


\* StatefulShell.execute: the safety check, then the command is submitted to
\* the executor (loop.run_in_executor)
Execute(cmd) ==
    /\ submitted < MaxCmds
    /\ submitted' = submitted + 1
    /\ IF ~check_command_safety(cmd).safe
       THEN /\ Blocked(submitted + 1, cmd)
            /\ UNCHANGED <<proc, run, queue, started, current_dir>>
       ELSE IF closing.shutdown
       THEN \* run_in_executor: cannot schedule new futures after shutdown
            /\ last' = [NoLast EXCEPT !.id = submitted + 1, !.cmd = cmd,
                            !.ps = ShRaised("RuntimeError"),
                            !.st = StatefulOutcome("w1", ShRaised("RuntimeError"))]
            /\ UNCHANGED <<proc, run, queue, started, current_dir>>
       ELSE /\ queue' = Append(queue, [id |-> submitted + 1, cmd |-> cmd])
            /\ UNCHANGED <<proc, run, started, last, current_dir>>
    /\ UNCHANGED nonShellVars

\* an idle worker thread of the executor takes the oldest work item and
\* begins persistent_shell.execute(command)
WorkerRun(w) ==
    /\ run[w].pc = "idle"
    /\ queue # <<>>
    /\ queue' = Tail(queue)
    /\ started' = Append(started, Head(queue).id)
    /\ StartCommand(w, Head(queue).id, Head(queue).cmd)
    /\ UNCHANGED <<submitted, nonShellVars>>

\* StatefulShell.execute_sync: the safety check, then the caller's thread
\* begins persistent_shell.execute(command)
ExecuteSync(cmd) ==
    /\ run["caller"].pc = "idle"
    /\ submitted < MaxCmds
    /\ submitted' = submitted + 1
    /\ IF ~check_command_safety(cmd).safe
       THEN /\ Blocked(submitted + 1, cmd)
            /\ UNCHANGED <<proc, run, current_dir>>
       ELSE StartCommand("caller", submitted + 1, cmd)
    /\ UNCHANGED <<queue, started, nonShellVars>>

\* what the expect of the wait loop may report for the running command
LoopOutcomes(r) ==
    CASE r.cmd = "pwd" -> {"prompt"} \cup (IF Len(r.trace) < MaxWaits THEN {"newline"} ELSE {})
      [] r.cmd = "hang" -> IF Len(r.trace) < MaxWaits THEN {"timeout"} ELSE {}
      [] r.cmd = "ask" -> InteractivePatterns
      [] r.cmd = "exit" -> {"eof"}
      [] r.cmd = "echo_marker" ->
            IF Len(r.lines) < Len(PrintedLines(r.cmd)) THEN {"newline"} ELSE {"prompt"}
      [] OTHER -> {"prompt"}

\* what an expect of the prompt alone may report
PromptOutcomes == {"prompt", "timeout", "eof"}

\* except pexpect.TIMEOUT: self.shell.sendcontrol('c'), then the prompt is
\* awaited for 5 seconds
TimeoutHandler(t, r) ==
    /\ run' = [run EXCEPT ![t] = [r EXCEPT !.pc = "timed_out", !.interrupts = @ + 1]]
    /\ UNCHANGED <<proc, last, current_dir>>

\* except pexpect.EOF: the process is gone, the session is reinitialized
EofHandler(t, r) ==
    Recover(t, r, TerminatedResult(r.lines))

\* an expect on a session that close has emptied: self.shell is None, the
\* AttributeError is taken by no handler of PersistentShell.execute
NoneShell(t, r) ==
    EndCall(t, r, ShRaised("AttributeError"), proc[SessionOf(t)])

\* one pass of the while loop: self.shell.expect(PROMPT_PATTERNS +
\* INTERACTIVE_PATTERNS + ['\r\n', pexpect.TIMEOUT], timeout=self.timeout).
\* TIMEOUT is in the list, so a timeout is reported as an index, not raised.
WaitLoop(t, o) ==
    /\ run[t].pc = "loop"
    /\ o \in (IF ClosedUnder(t) THEN ClosedOutcomes ELSE LoopOutcomes(run[t]))
    /\ LET r == [run[t] EXCEPT !.trace = Append(@, o)] IN
       CASE o = "none_shell" -> NoneShell(t, r)
         [] o = "prompt" ->
              /\ run' = [run EXCEPT ![t] =
                    [r EXCEPT !.pc = "exit_code",
                              !.lines = AddBefore(@, IF FalsePrompt(r.cmd) THEN <<>>
                                                     ELSE Unterminated(r.cmd) \o PromptPrefix),
                              !.printed = AddBefore(@, Unterminated(r.cmd))]]
              /\ proc' = [proc EXCEPT ![SessionOf(t)].cwd =
                              IF r.cmd = "cd_sub" THEN "sub" ELSE @]
              /\ UNCHANGED <<last, current_dir>>
         [] o = "newline" ->
              /\ LET line == IF r.cmd \in MarkerCommands
                              THEN PrintedLines(r.cmd)[Len(r.lines) + 1] ELSE <<"line">>
                 IN  run' = [run EXCEPT ![t] = [r EXCEPT !.lines = Append(@, line),
                                                         !.printed = Append(@, line)]]
              /\ UNCHANGED <<proc, last, current_dir>>
         [] o = "timeout" ->
              /\ run' = [run EXCEPT ![t] = r]
              /\ UNCHANGED <<proc, last, current_dir>>
         [] o \in InteractivePatterns ->
              /\ run' = [run EXCEPT ![t] = [r EXCEPT !.pc = "interrupted", !.pattern = o,
                                                    !.interrupts = @ + 1]]
              /\ UNCHANGED <<proc, last, current_dir>>
         [] o = "eof" -> EofHandler(t, r)
    /\ UNCHANGED <<queue, submitted, started, nonShellVars>>

\* after sendcontrol('c') for an interactive prompt: self.shell.expect(
\* self.prompt_pattern), inside the try
AwaitPromptAfterInterrupt(t, o) ==
    /\ run[t].pc = "interrupted"
    /\ LET r == [run[t] EXCEPT !.trace = Append(@, o)] IN
       CASE o = "prompt" ->
              /\ run' = [run EXCEPT ![t] = [r EXCEPT !.pc = "interrupted_cwd"]]
              /\ UNCHANGED <<proc, last, current_dir>>
         [] o = "timeout" -> TimeoutHandler(t, r)
         [] o = "eof" -> EofHandler(t, r)
    /\ UNCHANGED <<queue, submitted, started, nonShellVars>>

\* the result of the interactive branch: its cwd is asked with
\* _get_current_dir (sendline('pwd'), expect of the prompt), inside the try
ReturnInterrupted(t, o) ==
    /\ run[t].pc = "interrupted_cwd"
    /\ LET r == [run[t] EXCEPT !.trace = Append(@, o)] IN
       CASE o = "prompt" ->
              EndCall(t, r, ShReturned(InteractiveResult(r.lines, r.pattern,
                                            proc[SessionOf(t)].cwd)),
                      proc[SessionOf(t)])
         [] o = "timeout" -> TimeoutHandler(t, r)
         [] o = "eof" -> EofHandler(t, r)
    /\ UNCHANGED <<queue, submitted, started, nonShellVars>>

\* the TIMEOUT handler's expect(self.prompt_pattern, timeout=5): on a second
\* timeout the session is reinitialized; an EOF here is caught by nothing
ReturnTimedOut(t, o) ==
    /\ run[t].pc = "timed_out"
    /\ LET r == [run[t] EXCEPT !.trace = Append(@, o)] IN
       CASE o = "prompt" ->
              EndCall(t, r, ShReturned(TimedOutResult(r.lines)), proc[SessionOf(t)])
         [] o = "timeout" -> Recover(t, r, TimedOutResult(r.lines))
         [] o = "eof" ->
              EndCall(t, r, ShRaised("EOF"), [proc[SessionOf(t)] EXCEPT !.alive = FALSE])
    /\ UNCHANGED <<queue, submitted, started, nonShellVars>>

\* after the loop: echo "EXIT_CODE:$?", its two expects and _get_current_dir,
\* outside the try
ReturnCompleted(t, o) ==
    /\ run[t].pc = "exit_code"
    /\ o \in (IF ClosedUnder(t) THEN ClosedOutcomes
              ELSE IF run[t].cmd = "die_late" THEN {"eof"} ELSE {"prompt"})
    /\ LET r == [run[t] EXCEPT !.trace = Append(@, o),
                               !.printed = @ \o LateLines(run[t].cmd)]
           stream == LateLines(r.cmd) \o <<MarkerLine(ExitStatus(r.cmd))>>
       IN
       CASE o = "none_shell" -> NoneShell(t, r)
         [] o = "prompt" ->
              EndCall(t, r, ShReturned(ShellResult(StripMarker(r.lines), <<>>,
                                                   ExtractExitCode(stream),
                                                   proc[SessionOf(t)].cwd)),
                      proc[SessionOf(t)])
         [] o = "eof" ->
              EndCall(t, r, ShRaised("EOF"), [proc[SessionOf(t)] EXCEPT !.alive = FALSE])
    /\ UNCHANGED <<queue, submitted, started, nonShellVars>>

\* AsyncPersistentShell.close up to the wait of shutdown:
\* self.persistent_shell.close() ends the process and sets self.shell to
\* None, then self._executor.shutdown(wait=True) refuses new work
Close ==
    /\ ~closing.waiting
    /\ closing.calls < MaxCloses
    /\ proc' = [proc EXCEPT !["async"].alive = FALSE]
    /\ closing' = [calls |-> closing.calls + 1, waiting |-> TRUE, shutdown |-> TRUE]
    /\ UNCHANGED <<run, queue, submitted, started, last, current_dir>>
    /\ UNCHANGED <<orchVars, processor, wire, resolved, links, files, fileop, now, synced,
                   total_usage, usage_call>>

\* shutdown(wait=True) returns when the worker has run every work item
CloseReturn ==
    /\ closing.waiting
    /\ queue = <<>>
    /\ \A w \in ExecutorWorkers : run[w].pc = "idle"
    /\ closing' = [closing EXCEPT !.waiting = FALSE]
    /\ UNCHANGED <<proc, run, queue, submitted, started, last, current_dir>>
    /\ UNCHANGED <<orchVars, processor, wire, resolved, links, files, fileop, now, synced,
                   total_usage, usage_call>>

(***************************************************************************)
(* ObservableTools.read_file and write_file on the sandbox's files.        *)
(***************************************************************************)
MaxFileOps == 2

\* the virtual paths the tools are called with: a file of the workspace, the
\* workspace itself, the place of the link and a file beneath it, a system
\* directory, the traversal of scenario A
ToolPaths ==
    { <<"w">>, <<"/", "w">>, <<"e">>, <<"e", "/", "w">>, <<"/", "e">>, ScenarioA }
FileContents == {"a", "b"}

\* the directories that exist from the start
FixedDirs ==
    { <<>>, << <<"p">> >>, AgentRoot, Workspace, << <<"e">> >>, << <<"p">>, <<"r", "2">> >> }
\* a directory: one of the start, or one made by mkdir(parents=True) for a
\* file beneath it
IsDir(fs, path) ==
    \/ path \in FixedDirs
    \/ \E f \in fs : IsPrefix(path, f.path) /\ path # f.path
IsFile(fs, path) == \E f \in fs : f.path = path

\* the messages of the ValueError resolve_agent_path raises
PathViolations ==
    { "Path traversal not allowed", "Access to system directory not allowed",
      "Path escapes agent root directory" }

FileOp(n, op, path, kind, error, opened, logged, result) ==
    [n |-> n, op |-> op, path |-> path, kind |-> kind, error |-> error,
     opened |-> opened, logged |-> logged, result |-> result]
NoFileOp == FileOp(0, "none", <<>>, "none", "none", FALSE, FALSE, "none")

\* variant: the file is written under the virtual path's name whether or not
\* the path was accepted
WrittenFiles_Unchecked(r, content, fs) ==
    LET target == IF r.kind = "returned" THEN r.result
                  ELSE ResolveFrom(AgentRoot, SplitPath(r.path), NoLink)
    IN  {f \in fs : f.path # target} \cup {[path |-> target, content |-> content]}
\* the files after write_file, r being what resolve_agent_path gave: an
\* exception of line 57 leaves lines 60-64 out
WrittenFiles(r, content, fs) ==
    IF r.kind = "returned" /\ ~IsDir(fs, r.result)
                           /\ ~IsFile(fs, SubSeq(r.result, 1, Len(r.result) - 1))
    THEN {f \in fs : f.path # r.result} \cup {[path |-> r.result, content |-> content]}
    ELSE fs

\* ObservableTools.write_file
WriteFile(file_path, content) ==
    /\ fileop.n < MaxFileOps
    /\ LET r == resolve_agent_path(file_path, links)
           n == fileop.n + 1
       IN  /\ files' = WrittenFiles(r, content, files)
           /\ fileop' =
                IF r.kind = "raised"
                THEN FileOp(n, "write_file", file_path, "raised", r.error, FALSE, TRUE, "none")
                ELSE IF IsFile(files, SubSeq(r.result, 1, Len(r.result) - 1))
                THEN FileOp(n, "write_file", file_path, "raised", "FileExistsError",
                            FALSE, TRUE, "none")
                ELSE IF IsDir(files, r.result)
                THEN FileOp(n, "write_file", file_path, "raised", "IsADirectoryError",
                            TRUE, TRUE, "none")
                ELSE FileOp(n, "write_file", file_path, "returned", "none", TRUE, FALSE, content)
    /\ UNCHANGED <<nonPathVars, resolved, links>>

\* ObservableTools.read_file
ReadFile(file_path) ==
    /\ fileop.n < MaxFileOps
    /\ LET r == resolve_agent_path(file_path, links)
           n == fileop.n + 1
       IN  fileop' =
                IF r.kind = "raised"
                THEN FileOp(n, "read_file", file_path, "raised", r.error, FALSE, TRUE, "none")
                ELSE IF IsDir(files, r.result)
                THEN FileOp(n, "read_file", file_path, "raised", "IsADirectoryError",
                            TRUE, TRUE, "none")
                ELSE IF ~IsFile(files, r.result)
                THEN FileOp(n, "read_file", file_path, "raised", "FileNotFoundError",
                            TRUE, TRUE, "none")
                ELSE FileOp(n, "read_file", file_path, "returned", "none", TRUE, FALSE,
                            (CHOOSE f \in files : f.path = r.result).content)
    /\ UNCHANGED <<nonPathVars, resolved, links, files>>

(***************************************************************************)
(* FileSystemAgent.execute_tool('sync_context', ...) called again and      *)
(* again, the clock going on between the calls or not.                     *)
(***************************************************************************)
MaxSyncs == 3
MaxClock == 2

SyncContents == {DefaultContext, <<"task", "notes">>}

NoSync ==
    [n |-> 0, wrote |-> 0, ok |-> FALSE, before |-> <<>>, given |-> <<>>, log |-> <<>>,
     snapshots |-> {}]

\* execute_tool("sync_context", {"new_context_content": c}) and the
\* _sync_context it calls
SyncContext(c, fail) ==
    /\ synced.n < MaxSyncs
    /\ LET params == JObj(<<"new_context_content">>, <<JStr(c)>>)
           r == execute_tool("sync_context", params, fail, conversation_history, context)
       IN  /\ conversation_history' = r.hist
           /\ context' = r.ctx
           /\ \E wrote \in Writes("sync_context", params, r, context) :
                /\ archive' = IF wrote THEN Snapshot(archive, now, context) ELSE archive
                /\ synced' = [n |-> synced.n + 1,
                              wrote |-> synced.wrote + (IF wrote THEN 1 ELSE 0),
                              ok |-> ~r.raised, before |-> context, given |-> c,
                              log |-> conversation_history, snapshots |-> archive]
    /\ UNCHANGED <<messages, pc, mode, max_rounds, round_num, final_response, roundVars,
                   requestVars, outcome, call_start, frames, now>>
    /\ UNCHANGED <<processor, wire, shellVars, resolved, links, files, fileop,
                   total_usage, usage_call>>

\* execute_tool("sync_context", {}), as test_basic.py and the clear of
\* src/async_main.py call it: _sync_context(**{}) lacks its argument
SyncContextNoParams ==
    /\ synced.n < MaxSyncs
    /\ LET params == JObj(<<>>, <<>>)
           r == execute_tool("sync_context", params, FALSE, conversation_history, context)
       IN  /\ conversation_history' = r.hist
           /\ context' = r.ctx
           /\ \E wrote \in Writes("sync_context", params, r, context) :
                /\ archive' = IF wrote THEN Snapshot(archive, now, context) ELSE archive
                /\ synced' = [n |-> synced.n + 1,
                              wrote |-> synced.wrote + (IF wrote THEN 1 ELSE 0),
                              ok |-> ~r.raised, before |-> context, given |-> <<>>,
                              log |-> conversation_history, snapshots |-> archive]
    /\ UNCHANGED <<messages, pc, mode, max_rounds, round_num, final_response, roundVars,
                   requestVars, outcome, call_start, frames, now>>
    /\ UNCHANGED <<processor, wire, shellVars, resolved, links, files, fileop,
                   total_usage, usage_call>>

\* a second passes
Tick ==
    /\ now < MaxClock
    /\ now' = now + 1
    /\ UNCHANGED <<orchVars, processor, wire, shellVars, resolved, links, files, fileop, synced,
                   total_usage, usage_call>>

\* the context document is removed (rm through the shell)
RemoveContext ==
    /\ context # NoDocument
    /\ context' = NoDocument
    /\ UNCHANGED <<messages, conversation_history, archive, pc, mode, max_rounds, round_num,
                   final_response, roundVars, requestVars, outcome, call_start, frames>>
    /\ UNCHANGED <<processor, wire, shellVars, resolved, links, files, fileop, now, synced,
                   total_usage, usage_call>>

(***************************************************************************)
(* The explicit session clear of the entry-point scripts.                  *)
(***************************************************************************)
\* the locals and the result of the call that ended are gone
NoCall ==
    /\ pc' = "idle"
    /\ mode' = "invoke"
    /\ max_rounds' = 0
    /\ round_num' = 0
    /\ final_response' = NoResponse
    /\ response' = NoResponse
    /\ tool_results' = <<>>
    /\ ti' = 1
    /\ executed' = <<>>
    /\ api_messages' = <<>>
    /\ system_prompt' = <<>>
    /\ requests' = 0
    /\ outcome' = NoOutcome
    /\ call_start' = 0
    /\ frames' = <<>>

\* main_new.py: clear the history and the working log
ClearNew ==
    /\ pc = "idle"
    /\ messages # <<>>
    /\ messages' = <<>>
    /\ conversation_history' = <<>>
    /\ context' = context
    /\ archive' = archive
    /\ NoCall
    /\ UNCHANGED nonOrchVars

\* main.py: sync_context with the default context, rewrite the context
\* document, clear the history
ClearMain ==
    /\ pc = "idle"
    /\ messages # <<>>
    /\ LET r == execute_tool("sync_context",
                    JObj(<<"new_context_content">>, <<JStr(DefaultContext)>>), FALSE,
                    conversation_history, context)
       IN /\ conversation_history' = r.hist
          /\ context' = DefaultContext
          /\ archive' = archive
    /\ messages' = <<>>
    /\ NoCall
    /\ UNCHANGED nonOrchVars

\* src/async_main.py: execute_tool('sync_context', {}) raises TypeError, the
\* loop's except Exception prints it and goes on: the lines after it are
\* not run
ClearAsyncMain ==
    /\ pc = "idle"
    /\ messages # <<>>
    /\ Len(conversation_history) + 2 <= MaxHist
    /\ LET r == execute_tool("sync_context", JObj(<<>>, <<>>), FALSE,
                             conversation_history, context)
       IN /\ conversation_history' = r.hist
          /\ context' = r.ctx
          /\ messages' = IF r.raised THEN messages ELSE <<>>
    /\ archive' = archive
    /\ NoCall
    /\ UNCHANGED nonOrchVars

Clear == ClearNew \/ ClearMain

(***************************************************************************)
(* Usage.merge on any two Usage objects.                                   *)
(***************************************************************************)
NoMerge == [n |-> 0, self |-> Usage(0, 0, 0, 0), other |-> Usage(0, 0, 0, 0),
            result |-> Usage(0, 0, 0, 0)]

\* the object merge is called on: any Usage at first; merge returns self, so
\* the next merge goes on from the result
MergeTargets == IF usage_call.n = 0 THEN Usages ELSE {usage_call.result}

\* self.merge(other)
UsageMerge(self, other) ==
    /\ usage_call.n < MaxMerges
    /\ usage_call' = [n |-> usage_call.n + 1, self |-> self, other |-> other,
                      result |-> merge(self, other)]
    /\ UNCHANGED <<orchVars, processor, wire, shellVars, resolved, links, files, fileop,
                   now, synced, total_usage>>

(***************************************************************************)
(* The orchestrator: any sequence of calls of its entry points.            *)
(***************************************************************************)
Init ==
    /\ messages = <<>>
    /\ conversation_history = <<>>
    /\ context = DefaultContext
    /\ pc = "idle"
    /\ mode = "invoke"
    /\ max_rounds = 0
    /\ round_num = 0
    /\ final_response = NoResponse
    /\ response = NoResponse
    /\ tool_results = <<>>
    /\ ti = 1
    /\ executed = <<>>
    /\ api_messages = <<>>
    /\ system_prompt = <<>>
    /\ requests = 0
    /\ outcome = NoOutcome
    /\ call_start = 0
    /\ frames = <<>>
    /\ processor = reset
    /\ wire = NoWire
    /\ proc = [s \in Sessions |-> SpawnedProcess(0)]
    /\ run = [t \in Threads |-> NoRun]
    /\ queue = <<>>
    /\ submitted = 0
    /\ started = <<>>
    /\ last = NoLast
    /\ current_dir = "root"
    /\ closing = NoClose
    /\ resolved = NoResolve
    /\ links = NoLink
    /\ files = {}
    /\ fileop = NoFileOp
    /\ archive = {}
    /\ now = 0
    /\ synced = NoSync
    /\ total_usage = Usage(0, 0, 0, 0)
    /\ usage_call = NoMerge

\* calls of invoke and invoke_with_console, and session clears
Next ==
    \/ \E content \in UserContents, mr \in 0..MaxRounds : Invoke(content, mr)
    \/ OpenRound
    \/ StreamRaises
    \/ \E resp \in Responses : TurnResponse(resp)
    \/ \E fail \in BOOLEAN : ExecToolCall(fail)
    \/ AppendToolResults
    \/ ClearNew
    \/ ClearMain

Spec == Init /\ [][Next]_vars

\* calls of invoke_stream, and session clears
NextStream ==
    \/ \E content \in UserContents : InvokeStream(content)
    \/ StreamOpen
    \/ StreamError
    \/ \E usage \in SilentReports : MessageStart(usage)
    \/ \E kind \in BlockKinds, name \in BlockToolNames : ContentBlockStart(kind, name)
    \/ \E delta \in TextDeltas \cup JsonDeltas : ContentBlockDelta(delta)
    \/ ContentBlockStop
    \/ \E sr \in StopReasons, usage \in SilentReports : MessageDelta(sr, usage)
    \/ \E fail \in BOOLEAN : StreamToolCall(fail)
    \/ StreamToolResults
    \/ MessageStop
    \/ ClearNew
    \/ ClearMain

SpecStream == Init /\ [][NextStream]_vars

\* calls of process_stream on any event stream of one turn
NextAggregator ==
    \/ \E callback \in BOOLEAN : ProcessStream(callback)
    \/ CallbackRaises
    \/ OnMessageStart(3, 1)
    \/ \E kind \in BlockKinds, name \in BlockToolNames : OnContentBlockStart(kind, name)
    \/ \E delta \in TextDeltas \cup NextFragments(wire.frags) :
            OnContentBlockDelta(delta)
    \/ OnContentBlockStop
    \/ \E sr \in StopReasons, o \in UsageValues : OnMessageDelta(sr, o)
    \/ ProcessStreamReturn

SpecAggregator == Init /\ [][NextAggregator]_vars

\* invoke under the scheduling the claims assume: every stream ends (with a
\* response or an exception) and every tool execution ends
SpecFair ==
    /\ Spec
    /\ WF_vars(OpenRound)
    /\ WF_vars(StreamRaises \/ \E resp \in Responses : TurnResponse(resp))
    /\ WF_vars(\E fail \in BOOLEAN : ExecToolCall(fail))
    /\ WF_vars(AppendToolResults)

\* commands handed to one StatefulShell by concurrent callers of execute and
\* by a caller of execute_sync
NextShell ==
    \/ \E cmd \in Commands : Execute(cmd)
    \/ \E w \in ExecutorWorkers : WorkerRun(w)
    \/ \E cmd \in Commands : ExecuteSync(cmd)
    \/ \E t \in Threads, o \in {"prompt", "newline", "timeout", "eof"} \cup InteractivePatterns :
            WaitLoop(t, o)
    \/ \E t \in Threads, o \in PromptOutcomes : AwaitPromptAfterInterrupt(t, o)
    \/ \E t \in Threads, o \in PromptOutcomes : ReturnInterrupted(t, o)
    \/ \E t \in Threads, o \in PromptOutcomes : ReturnTimedOut(t, o)
    \/ \E t \in Threads, o \in PromptOutcomes : ReturnCompleted(t, o)

SpecShell == Init /\ [][NextShell]_vars

\* commands that run to their end, some printing the text of the exit-code
\* marker, handed to one StatefulShell
NextOutput ==
    \/ \E cmd \in OutputCommands : Execute(cmd)
    \/ \E w \in ExecutorWorkers : WorkerRun(w)
    \/ \E cmd \in OutputCommands : ExecuteSync(cmd)
    \/ \E t \in Threads, o \in {"prompt", "newline"} : WaitLoop(t, o)
    \/ \E t \in Threads : ReturnCompleted(t, "prompt")

SpecOutput == Init /\ [][NextOutput]_vars

\* commands handed to execute by callers, and close called at any moment
CloseCommands == {"pwd", "cd_sub"}
NextClose ==
    \/ \E cmd \in CloseCommands : Execute(cmd)
    \/ \E w \in ExecutorWorkers : WorkerRun(w)
    \/ \E w \in ExecutorWorkers, o \in {"prompt", "newline"} \cup ClosedOutcomes :
            WaitLoop(w, o)
    \/ \E w \in ExecutorWorkers, o \in {"prompt"} \cup ClosedOutcomes : ReturnCompleted(w, o)
    \/ Close
    \/ CloseReturn

SpecClose == Init /\ [][NextClose]_vars

\* calls of resolve_agent_path on every virtual path of the bound
NextPath ==
    \/ \E agent_path \in VirtualPaths : ResolveAgentPath(agent_path)
    \/ \E l \in Layouts : MakeSymlink(l)

SpecPath == Init /\ [][NextPath]_vars

\* the sandbox's two guards in one run: file tools and shell commands. The
\* file tools and the shell sessions share no variable; a run has its file
\* operations while no command has reached a session, and its commands that
\* reach a session while no file operation was made
NoCommandRan ==
    /\ queue = <<>>
    /\ started = <<>>
    /\ \A t \in Threads : run[t] = NoRun
    /\ last.thread = "none"
    /\ current_dir = "root"
    /\ \A s \in Sessions : proc[s] = SpawnedProcess(0)
NoFileTouched == fileop = NoFileOp /\ files = {} /\ links = NoLink

NextSandbox ==
    \/ /\ NoCommandRan
       /\ \/ \E file_path \in ToolPaths, content \in FileContents : WriteFile(file_path, content)
          \/ \E file_path \in ToolPaths : ReadFile(file_path)
          \/ \E l \in Layouts : MakeSymlink(l)
    \/ /\ NoFileTouched
       /\ NextShell

SpecSandbox == Init /\ [][NextSandbox]_vars

NextSync ==
    \/ \E c \in SyncContents, fail \in BOOLEAN : SyncContext(c, fail)
    \/ SyncContextNoParams
    \/ Tick
    \/ RemoveContext

SpecSync == Init /\ [][NextSync]_vars

\* merges on every pair of Usage objects, and on the results
NextUsage == \E self \in MergeTargets, other \in Usages : UsageMerge(self, other)

SpecUsage == Init /\ [][NextUsage]_vars

\* a session of an entry-point script on invoke_stream: turns of text, with
\* the usage the service reports, and the clear command
NextSession ==
    \/ \E content \in UserContents : InvokeStream(content)
    \/ StreamOpen
    \/ \E usage \in StartReports : MessageStart(usage)
    \/ \E name \in BlockToolNames : ContentBlockStart("text", name)
    \/ \E delta \in TextDeltas : ContentBlockDelta(delta)
    \/ ContentBlockStop
    \/ \E usage \in DeltaReports : MessageDelta("end_turn", usage)
    \/ MessageStop
    \/ ClearNew
    \/ ClearMain
    \/ ClearAsyncMain

SpecSession == Init /\ [][NextSession]_vars

(***************************************************************************)
(* Properties.                                                             *)
(***************************************************************************)

InvokeIdle == mode = "invoke" /\ pc = "idle"

\* the text blocks of the assistant Events appended after position n, joined
RECURSIVE AssistantTextSince(_, _)
AssistantTextSince(msgs, n) ==
    IF Len(msgs) <= n THEN <<>>
    ELSE LET ev == Last(msgs)
             texts == IF ev.role = "assistant"
                      THEN Flatten([i \in 1..Len(ev.content.blocks) |->
                                IF ev.content.blocks[i].type = "text"
                                THEN ev.content.blocks[i].text ELSE <<>>])
                      ELSE <<>>
         IN  AssistantTextSince(SubSeq(msgs, 1, Len(msgs) - 1), n) \o texts

\* C1: whenever no call is running, no two consecutive Events of the
\* history have the same role.
C1_RolesAlternate ==
    pc = "idle" =>
        \A i \in 1..(Len(messages) - 1) : messages[i].role # messages[i + 1].role

\* C2: invoke never returns leaving a tool_result Event it appended as the
\* last entry of the history, with no request issued after it.
C2_ToolResultAnswered ==
    (InvokeIdle /\ outcome.kind = "returned" /\ Len(messages) > call_start)
        => Last(messages).type # "tool_result"

\* C3: a call of invoke with max_rounds = N issues at most N requests, starts
\* no loop iteration once N requests were issued, and, every stream and tool
\* execution ending, comes back to its caller.
C3_AtMostMaxRoundsRequests ==
    /\ [](mode = "invoke" =>
            /\ requests <= max_rounds
            /\ pc = "round" => requests < max_rounds
            /\ requests <= round_num + 1)
    /\ (pc # "idle") ~> (pc = "idle")

\* a call that was answered tool calls in every round has used all its rounds
C3_Witness ==
    /\ InvokeIdle
    /\ outcome.kind = "returned"
    /\ max_rounds = 2
    /\ requests = 2
    /\ Last(messages).type = "tool_result"

\* C4: once a turn holds no tool call (even no block at all) the call is
\* over: no request follows, the round was counted, and the text returned
\* is the text of all rounds of the call, in order.
C4_NoToolCallsEndsCall ==
    (mode = "invoke" /\ response # NoResponse /\ response.tool_calls = <<>>) =>
        /\ pc = "idle"
        /\ outcome.kind = "returned"
        /\ outcome.value.text = AssistantTextSince(messages, call_start)
        /\ requests = round_num + 1
        /\ requests <= max_rounds

\* the second round answers nothing at all; the first round's text is returned
C4_Witness ==
    /\ InvokeIdle
    /\ response # NoResponse
    /\ response.tool_calls = <<>>
    /\ response.text = <<>>
    /\ round_num = 1
    /\ outcome.value.text = <<"a">>

\* C5: the tool calls of a turn are executed one at a time in the order
\* emitted; the round appends exactly one tool_result Event, right after the
\* assistant Event, holding one result per tool call in the same order with
\* the call's id.
C5_ToolsInOrderOneResultEvent ==
    (mode = "invoke" /\ response.tool_calls # <<>>) =>
        LET calls == response.tool_calls
            ids == [i \in 1..Len(calls) |-> calls[i].id]
        IN  IF pc = "tools"
            THEN /\ executed = SubSeq(ids, 1, ti - 1)
                 /\ [i \in 1..Len(tool_results) |-> tool_results[i].tool_use_id] = executed
                 /\ Last(messages).role = "assistant"
            ELSE /\ executed = ids
                 /\ Last(messages).type = "tool_result"
                 /\ Last(messages).role = "user"
                 /\ [i \in 1..Len(Last(messages).content.blocks) |->
                        Last(messages).content.blocks[i].tool_use_id] = ids
                 /\ messages[Len(messages) - 1].role = "assistant"
                 /\ [i \in 1..Len(calls) |->
                        messages[Len(messages) - 1].content.blocks[
                            Len(messages[Len(messages) - 1].content.blocks)
                                - Len(calls) + i].id] = ids

\* a round of two tool calls has been executed and recorded
C5_Witness ==
    /\ InvokeIdle
    /\ Len(response.tool_calls) = 2
    /\ Len(executed) = 2
    /\ Last(messages).type = "tool_result"

\* C6: a tool call whose execution raises gets an error string as its
\* result; the remaining calls are still executed, the tool_result Event is
\* appended, and the exception does not leave invoke.
C6_ToolErrorsBecomeResults ==
    mode = "invoke" =>
        /\ Len(tool_results) = Len(executed)
        /\ \A i \in 1..Len(tool_results) :
              LET call == response.tool_calls[i] IN
              /\ call.name \notin tool_mapping =>
                    SubSeq(tool_results[i].content, 1, 3) =
                        <<"Tool execution error: ", "Unknown tool: ", call.name>>
              /\ tool_results[i].content # format_tool_result(sync_context_result) =>
                    Head(tool_results[i].content) = "Tool execution error: "
        /\ (pc # "tools" /\ response.tool_calls # <<>>) =>
              /\ Len(executed) = Len(response.tool_calls)
              /\ Last(messages).type = "tool_result"
              /\ Last(messages).content.blocks = tool_results

\* the first tool call of a batch raised, the second one was still executed
\* and succeeded, and the call returned
C6_Witness ==
    /\ InvokeIdle
    /\ outcome.kind = "returned"
    /\ Len(response.tool_calls) = 2
    /\ response.tool_calls[1].name = "shell"
    /\ Len(tool_results) = 2
    /\ Head(tool_results[1].content) = "Tool execution error: "
    /\ tool_results[2].content = format_tool_result(sync_context_result)
    /\ Last(messages).type = "tool_result"

\* C7: an exception raised while a round's stream is opened or consumed is
\* not raised to the caller of invoke.
C7_TransportErrorNotRaised ==
    InvokeIdle => outcome.kind # "raised"

\* C8: after a turn whose stop reason is max_tokens or refusal no further
\* request is prepared or issued, whatever the turn's tool calls.
C8_NoRequestAfterTruncation ==
    (mode = "invoke" /\ pc \in {"round", "stream"}) =>
        response.stop_reason \notin {"max_tokens", "refusal"}

\* a truncated turn with a tool call ended the call although a round was left
C8_Witness ==
    /\ InvokeIdle
    /\ outcome.kind = "returned"
    /\ response.stop_reason = "max_tokens"
    /\ response.tool_calls # <<>>
    /\ round_num + 1 < max_rounds
    /\ Last(messages).type = "tool_result"

\* C9: every step other than a session clear leaves the history it found as
\* a prefix of the history it leaves.
C9_HistoryAppendOnly ==
    [][Clear \/ IsPrefix(messages, messages')]_vars

\* C10: the input of the tool call emitted when a tool-use block closes is
\* the result of parsing the fragments delivered for the block, joined in
\* arrival order (and while the block is open the accumulated string is
\* that concatenation).
C10_InputIsParseOfConcatenation ==
    /\ (wire.phase = "open" /\ wire.kind = "tool_use") =>
            processor.current_tool_use.input_json = wire.frags
    /\ (wire.phase = "blocks" /\ wire.kind = "tool_use") =>
            /\ processor.tool_uses # <<>>
            /\ LET input == Last(processor.tool_uses).input
                   r == JsonLoads(wire.frags)
               IN  IF r.ok THEN input = r.val
                   ELSE input.t = "obj" /\ JStr(wire.frags) \in {input.vals[i] :
                                                    i \in 1..Len(input.vals)}

\* {"k":1} arrived in two fragments and was emitted as the map k -> 1
C10_Witness ==
    /\ wire.phase = "blocks"
    /\ wire.kind = "tool_use"
    /\ wire.blocks = 1
    /\ wire.deltas = 2
    /\ wire.frags = <<"{", QUOTE, "k", QUOTE, ":", "1", "}">>
    /\ Last(processor.tool_uses).input = JObj(<<"k">>, <<JNum(1)>>)

\* C11: a tool-use block that closes with an accumulated string that is not
\* valid JSON (the empty string included) is emitted by the aggregator with
\* the single-key input {"INVALID_JSON": <the accumulated string>}.
C11_InvalidJsonWrapped ==
    (wire.phase = "blocks" /\ wire.kind = "tool_use" /\ ~JsonLoads(wire.frags).ok) =>
        /\ processor.tool_uses # <<>>
        /\ Last(processor.tool_uses).input =
                JObj(<<"INVALID_JSON">>, <<JStr(wire.frags)>>)

\* C12: the list of tool calls grows only when the block-stop of an open
\* tool-use block is consumed, by one call carrying the id and name of the
\* block's start; the response returned holds exactly the calls emitted so,
\* none for a block still open when the event sequence ends.
C12_OnlyClosedBlocksEmitted ==
    [][ /\ (processor'.tool_uses # processor.tool_uses /\ processor'.tool_uses # <<>>) =>
            /\ wire.phase = "open"
            /\ wire.kind = "tool_use"
            /\ wire'.phase = "blocks"
            /\ Len(processor'.tool_uses) = Len(processor.tool_uses) + 1
            /\ IsPrefix(processor.tool_uses, processor'.tool_uses)
            /\ Last(processor'.tool_uses).id = wire.id
            /\ Last(processor'.tool_uses).name = wire.name
        /\ (wire.phase # "closed" /\ wire'.outcome.kind = "returned") =>
            wire'.outcome.value.tool_calls = processor.tool_uses
      ]_vars

\* the event sequence ended inside the second tool-use block, after fragments
\* of its input had arrived: only the first block's call was returned
C12_Witness ==
    /\ wire.outcome.kind = "returned"
    /\ processor.current_tool_use.some
    /\ processor.current_tool_use.input_json # <<>>
    /\ Len(wire.outcome.value.tool_calls) = 1
    /\ wire.outcome.value.tool_calls[1].id = 1
    /\ processor.current_tool_use.id = 2

\* C13: an observer callback that raises does not end process_stream: the
\* call never ends with the callback's exception.
C13_CallbackFailureIgnored ==
    wire.outcome.kind # "raised"

\* the part of a call's expect reports that follows the first interactive match
AfterPattern(trace) ==
    LET i == CHOOSE k \in 1..Len(trace) : trace[k] \in InteractivePatterns
    IN  SubSeq(trace, i + 1, Len(trace))

\* C14: of the commands submitted through AsyncPersistentShell.execute at
\* most one is executing at any time, and they begin in the order in which
\* they were submitted (every one that began was submitted before every one
\* still queued).
C14_SerializedInOrder ==
    /\ Cardinality({t \in Threads \ {"caller"} : run[t].pc # "idle"}) <= 1
    /\ \A i, j \in 1..Len(started) : i < j => started[i] < started[j]
    /\ \A i \in 1..Len(started), j \in 1..Len(queue) : started[i] < queue[j].id

\* two callers submitted commands: the first is executing, the second waits
C14_Witness ==
    /\ \E t \in Threads \ {"caller"} : run[t].pc = "loop" /\ run[t].id = 1
    /\ Len(queue) = 1
    /\ queue[1].id = 2
    /\ started = <<1>>

\* C15: execute and execute_sync run against one and the same process: when
\* no command is running, the process execute uses and the process
\* execute_sync uses are in the same working directory.
C15_OneProcessForBothEntries ==
    (\A t \in Threads : run[t].pc = "idle") => proc["async"].cwd = proc["sync"].cwd

\* C16: once the timeout has elapsed in the wait for a command, execute does
\* not go on waiting for it.
C16_TimeoutEndsWait ==
    \A t \in Threads :
        run[t].pc = "loop" => \A i \in 1..Len(run[t].trace) : run[t].trace[i] # "timeout"

\* C17: a call during which the shell process terminated (EOF) returned the
\* result exit_code -1 / "Shell process terminated", and left the session
\* with a live process.
C17_EofRecovered ==
    (\E i \in 1..Len(last.trace) : last.trace[i] = "eof") =>
        /\ last.ps.kind = "returned"
        /\ last.ps.value.exit_code = -1
        /\ last.ps.value.stderr = <<"Shell process terminated">>
        /\ proc[SessionOf(last.thread)].alive

\* C18 as stated: a call during which an interactive pattern was matched
\* returned exit_code 130 and a stderr naming the pattern.
C18_InteractiveReturns130 ==
    (\E i \in 1..Len(last.trace) : last.trace[i] \in InteractivePatterns) =>
        /\ last.ps.kind = "returned"
        /\ last.ps.value.exit_code = 130
        /\ \E pat \in InteractivePatterns : pat \in {last.ps.value.stderr[k] :
                                                k \in 1..Len(last.ps.value.stderr)}

\* C18 amended: after an interactive match an interrupt has been sent and
\* only the prompt is awaited; the call returns exit_code 130, with a stderr
\* naming the matched pattern, exactly when the prompt arrived and the
\* working-directory query was answered; otherwise it ends with an
\* exit_code -1 result or the session's exception.
C18_InterruptedThenPrompt ==
    /\ \A t \in Threads :
          run[t].pattern # "none" =>
              /\ run[t].interrupts >= 1
              /\ run[t].pc \in {"interrupted", "interrupted_cwd", "timed_out"}
    /\ (\E i \in 1..Len(last.trace) : last.trace[i] \in InteractivePatterns) =>
          LET pat == CHOOSE x \in InteractivePatterns :
                        \E i \in 1..Len(last.trace) : last.trace[i] = x
              is130 == last.ps.kind = "returned" /\ last.ps.value.exit_code = 130
          IN  /\ last.interrupts >= 1
              /\ is130 <=> AfterPattern(last.trace) = <<"prompt", "prompt">>
              /\ is130 => last.ps.value.stderr =
                            <<"Interactive command detected: ", pat, ". Command cancelled.">>
              /\ (last.ps.kind = "returned" /\ ~is130) => last.ps.value.exit_code = -1

\* a (y/n) question was interrupted, the prompt came back: exit_code 130
C18_Witness ==
    /\ last.trace = <<"(y/n)", "prompt", "prompt">>
    /\ last.interrupts = 1
    /\ last.ps.kind = "returned"
    /\ last.ps.value.exit_code = 130

\* C19: StatefulShell.execute and execute_sync never end by raising: every
\* call that ended, whatever the session did, returned a map with stdout,
\* stderr, exit_code and cwd; an exception of the session became the
\* exit_code -1 error result.
C19_StatefulShellNeverRaises ==
    last.id # 0 =>
        /\ last.st.kind = "returned"
        /\ DOMAIN last.st.value = {"stdout", "stderr", "exit_code", "cwd"}
        /\ last.ps.kind = "raised" =>
              /\ last.st.value.exit_code = -1
              /\ Head(last.st.value.stderr) = "Error executing command: "

\* the session's execute raised EOF while reading the exit code; the
\* StatefulShell call still returned a result
C19_Witness ==
    /\ last.cmd = "die_late"
    /\ last.ps.kind = "raised"
    /\ last.ps.exc = "EOF"
    /\ last.st.kind = "returned"
    /\ last.st.value.exit_code = -1

\* C20: every virtual path with a traversal segment (a component equal to
\* ..), absolute or relative, is rejected by resolve_agent_path, and the
\* filesystem has not been consulted when it is.
C20_TraversalRejectedFirst ==
    (\E i \in 1..Len(SplitPath(resolved.path)) : SplitPath(resolved.path)[i] = <<".", ".">>) =>
        /\ resolved.kind = "raised"
        /\ ~resolved.fs

\* /workspace/../../etc/passwd was rejected without a look at the filesystem
C20_Witness ==
    /\ resolved.path = ScenarioA
    /\ resolved.kind = "raised"
    /\ resolved.error = "Path traversal not allowed"
    /\ ~resolved.fs

\* C21: every path resolve_agent_path returns is the sandbox root or lies
\* beneath it component by component, whatever the virtual path and the
\* symbolic link inside the sandbox; a path that resolves outside is raised
\* as a path violation
C21_ReturnedPathsInsideRoot ==
    resolved.kind = "returned" => IsPrefix(AgentRoot, resolved.result)

\* the segments of a virtual path that name something
NamingSegments(agent_path) ==
    SelectSeq(SplitPath(agent_path), LAMBDA seg : seg # <<>> /\ seg # <<".">>)

\* C22: with no symbolic link involved, an accepted absolute path p resolves
\* to <sandbox root>/<p without its leading slash> and an accepted relative
\* path to <sandbox root>/workspace/<p>
C22_RootedAtRootOrWorkspace ==
    (resolved.kind = "returned" /\ links = NoLink) =>
        resolved.result =
            (IF resolved.path # <<>> /\ Head(resolved.path) = "/"
             THEN AgentRoot ELSE AgentRoot \o << <<"w">> >>)
            \o NamingSegments(resolved.path)

C22_Witness ==
    /\ links = NoLink
    /\ resolved.kind = "returned"
    /\ resolved.path = <<"e", "/", "w">>
    /\ resolved.result = << <<"p">>, <<"r">>, <<"w">>, <<"e">>, <<"w">> >>
\* a step in which a file tool call ended with a path violation
PathRejectedStep ==
    /\ fileop'.n # fileop.n
    /\ fileop'.kind = "raised"
    /\ fileop'.error \in PathViolations
\* a step in which StatefulShell.execute / execute_sync blocked a command
CommandBlockedStep ==
    /\ last'.id # last.id
    /\ last'.thread = "none"
    /\ last'.st.kind = "returned"
    /\ last'.st.value.exit_code = 1

\* C23: a rejected path and a blocked command are rejected before any file
\* is read or written and before anything is sent to a shell process: the
\* files, the shell processes and the guard's working directory are as
\* before, and the caller has a rejection with a reason
C23_RejectionBeforeAnyEffect ==
    [][ /\ PathRejectedStep =>
            /\ ~fileop'.opened
            /\ fileop'.error # "none"
            /\ UNCHANGED <<files, links, proc, run, queue, started, current_dir>>
        /\ CommandBlockedStep =>
            /\ Head(last'.st.value.stderr) = "Command blocked: "
            /\ Len(last'.st.value.stderr) = 2
            /\ UNCHANGED <<files, links, proc, run, queue, started, current_dir>>
      ]_vars

C23_Witness ==
    /\ last.id > 0
    /\ last.st.value.exit_code = 1
    /\ fileop.op = "write_file"
    /\ fileop.error = "Path traversal not allowed"
    /\ files # {}
\* the commands of the model that match a destructive pattern: rm -rf / and
\* SUDO ls
DestructiveCommands == {"rm_rf", "sudo"}

\* C24: a command matching a destructive pattern is rejected by execute and
\* execute_sync with exit_code 1 and the reason "Dangerous command pattern
\* detected", whatever the working directory, and never reaches a shell
\* process
C24_DestructiveBlocked ==
    /\ (last.id > 0 /\ last.cmd \in DestructiveCommands) =>
            /\ last.thread = "none"
            /\ last.st.kind = "returned"
            /\ last.st.value.exit_code = 1
            /\ last.st.value.stderr =
                    <<"Command blocked: ", "Dangerous command pattern detected">>
    /\ \A t \in Threads : run[t].cmd \notin DestructiveCommands
    /\ \A i \in 1..Len(queue) : queue[i].cmd \notin DestructiveCommands

C24_Witness ==
    /\ current_dir = "sub"
    /\ last.cmd = "sudo"
    /\ last.st.value.exit_code = 1
    /\ last.st.value.stderr = <<"Command blocked: ", "Dangerous command pattern detected">>

\* the allow-listed system directories, as components
AllowedDirs == { << <<"bin">> >>, << <<"tmp">> >> }

\* a token that the guard is meant to refuse, dir being its working directory
EscapingToken(token, dir) ==
    LET segs == SplitPath(token)
        absolute == token # <<>> /\ Head(token) = "/"
        target == ResolveFrom(IF absolute THEN <<>> ELSE DirPath(dir), segs, NoLink)
    IN  \/ /\ absolute
           /\ ~IsPrefix(AgentRoot, target)
           /\ ~\E d \in AllowedDirs : IsPrefix(d, target)
        \/ /\ ~absolute
           /\ \E i \in 1..Len(segs) : segs[i] = <<".", ".">>
           /\ ~IsPrefix(AgentRoot, target)

\* a step in which execute / execute_sync lets command cmd through the guard
AcceptedStep(cmd) ==
    /\ submitted' = submitted + 1
    /\ \/ Len(queue') = Len(queue) + 1 /\ Last(queue').cmd = cmd
       \/ run'["caller"] # run["caller"] /\ run'["caller"].cmd = cmd
       \/ last'.id = submitted' /\ last'.thread # "none" /\ last'.cmd = cmd

\* C25: no command the guard accepts has a token that is an absolute path
\* outside the sandbox root and outside the allow-listed directories, or a
\* relative path with .. segments that resolves, from the guard's working
\* directory, outside the root (outside: not the root nor beneath it
\* component by component)
C25_NoEscapingTokenAccepted ==
    [][ \A cmd \in Commands :
            AcceptedStep(cmd) =>
                \A i \in 1..Len(CommandText(cmd)) :
                    ~EscapingToken(CommandText(cmd)[i], current_dir) ]_vars
\* a step that is a direct sync_context call
SyncStep == synced'.n = synced.n + 1

\* C26: each sync_context call made while the context document exists adds
\* one archived snapshot holding the document as it was before the call:
\* after k such calls, however close in time, there are k snapshots and none
\* was written over
C26_OneSnapshotPerSync ==
    [][ (SyncStep /\ synced'.ok /\ context # NoDocument) =>
            /\ Cardinality(archive') = synced'.wrote
            /\ Cardinality(archive') = Cardinality(archive) + 1
            /\ archive \subseteq archive'
            /\ \E a \in archive' \ archive : a.content = context
      ]_vars

\* C27: after a successful sync_context(c) the context document is exactly c
\* whatever it was before, and no record that was in the working log before
\* the call is left in it (the log holds the record of the call's own result)
C27_ContextReplacedLogTruncated ==
    [][ (SyncStep /\ synced'.ok) =>
            /\ context' = synced'.given
            /\ conversation_history' = <<HistRecord("tool_result", "sync_context")>>
      ]_vars

C27_Witness ==
    /\ synced.n > 1
    /\ synced.ok
    /\ synced.before = synced.given
    /\ Len(synced.log) > 1
    /\ context = <<"task", "notes">>
UsageFields ==
    {"cache_creation_input_tokens", "cache_read_input_tokens", "input_tokens", "output_tokens"}

\* C28: merge adds field by field with nil-safe defaults: each counter of
\* the result is the own value (0 when absent) plus the other's value when
\* the other's value is present, and the own value when it is absent; with
\* non-negative inputs no counter decreases
C28_MergeAddsFieldwise ==
    usage_call.n > 0 =>
        \A f \in UsageFields :
            /\ usage_call.other[f] # None =>
                    usage_call.result[f] =
                        (IF usage_call.self[f] = None THEN 0 ELSE usage_call.self[f])
                        + usage_call.other[f]
            /\ usage_call.other[f] = None => usage_call.result[f] = usage_call.self[f]
            /\ (IF usage_call.result[f] = None THEN 0 ELSE usage_call.result[f])
                    >= (IF usage_call.self[f] = None THEN 0 ELSE usage_call.self[f])

C28_Witness ==
    /\ usage_call.n = 2
    /\ usage_call.self = Usage(None, 0, 1, 2)
    /\ usage_call.other = Usage(1, None, None, 1)
    /\ usage_call.result = Usage(1, 0, 1, 3)

\* C29: the clear command of each entry-point script leaves the message
\* history empty and total_usage at zero
C29_ClearResetsHistoryAndUsage ==
    [][ (ClearNew \/ ClearMain \/ ClearAsyncMain) =>
            /\ messages' = <<>>
            /\ total_usage' = Usage(0, 0, 0, 0) ]_vars
\* C30: a tool call of the model that names a tool of the manifest is
\* dispatched to an implementation: its tool result is no unknown-tool
\* error, and the result of a shell call carries the command's exit code,
\* stdout and cwd
C30_ManifestToolsDispatched ==
    (pc = "tools" /\ mode = "invoke") =>
        \A i \in 1..Len(tool_results) :
            LET tool_call == NextToolCall(response.tool_calls, i) IN
            tool_call.name \in ToolManifest =>
                /\ ~IsPrefix(<<"Tool execution error: ", "Unknown tool: ">>,
                             tool_results[i].content)
                /\ tool_call.name = "shell" =>
                        IsPrefix(<<"Exit code: ">>, tool_results[i].content)
\* C31: execute_tool('sync_context', {}) with no new_context_content
\* returns a result of status success: the call does not raise
C31_SyncWithoutParamsSucceeds ==
    [][ SyncContextNoParams =>
            /\ synced'.ok
            /\ Last(conversation_history') = HistRecord("tool_result", "sync_context")
      ]_vars
\* the request of a later round of an invoke call is open: response and
\* tool_results are still those of the round before
LaterRoundOpen == mode = "invoke" /\ pc = "stream" /\ round_num >= 1

\* the ids of the tool-use blocks of a message as sent, in order
ToolUseIdsOf(content) ==
    LET uses == SelectSeq(content, LAMBDA b : b.type = "tool_use")
    IN  [i \in 1..Len(uses) |-> uses[i].id]

\* C32: the history handed to the service for round n+1 ends with round n's
\* assistant Event, holding every tool-use block of that turn in order,
\* immediately followed by round n's tool_result Event with one result per
\* tool call
C32_RequestAfterResultsAppended ==
    LaterRoundOpen =>
        LET n == Len(api_messages)
            calls == response.tool_calls
            ids == [i \in 1..Len(calls) |-> calls[i].id]
        IN  /\ n >= 2
            /\ n = Len(messages)
            /\ api_messages[n - 1].role = "assistant"
            /\ ToolUseIdsOf(api_messages[n - 1].content) = ids
            /\ api_messages[n].role = "user"
            /\ api_messages[n].content = tool_results
            /\ [i \in 1..Len(tool_results) |-> tool_results[i].tool_use_id] = ids

\* the turn before held text and two tool calls
C32_Witness ==
    /\ LaterRoundOpen
    /\ Len(response.tool_calls) = 2
    /\ response.text # <<>>
    /\ Len(api_messages[1].content) = 3
    /\ Len(api_messages[2].content) = 2
\* C33: the assistant Event of a round holds a bare text block exactly when
\* the turn produced one block and that block is text; any other turn with
\* at least one block is stored as a list: the text block, if any, then the
\* tool-use blocks in the order received
C33_BareTextOnlyForSingleTextBlock ==
    [][ \A resp \in Responses :
          (TurnResponse(resp) /\ (resp.text # <<>> \/ resp.tool_calls # <<>>)) =>
            LET ev == Last(messages')
                text == IF resp.text # <<>> THEN <<TextContent(resp.text)>> ELSE <<>>
                uses == [i \in 1..Len(resp.tool_calls) |->
                            ToolUseContent(resp.tool_calls[i].id, resp.tool_calls[i].name,
                                           ValInput(resp.tool_calls[i].input))]
            IN  /\ Len(messages') = Len(messages) + 1
                /\ ev.role = "assistant"
                /\ ev.content.single <=> (resp.text # <<>> /\ resp.tool_calls = <<>>)
                /\ ev.content.blocks = text \o uses
      ]_vars

\* a history with a bare text turn, then a turn of text and two tool calls
C33_Witness ==
    /\ mode = "invoke"
    /\ pc = "tools"
    /\ Len(messages) = 2
    /\ messages[1].role = "assistant"
    /\ messages[1].content.single
    /\ messages[1].content.blocks[1].type = "text"
    /\ ~messages[2].content.single
    /\ Len(messages[2].content.blocks) = 3
\* the last command ran to its end: the wait loop found a prompt and the
\* marker echo was answered
CompletedNormally ==
    /\ last.ps.kind = "returned"
    /\ last.ps.value.stderr = <<>>
    /\ last.ps.value.exit_code >= 0

\* C34: the exit_code returned for a command whose output holds the text of
\* the exit-code marker is the command's exit status
C34_ExitCodeIsCommandStatus ==
    (CompletedNormally /\ last.cmd \in MarkerCommands) =>
        last.ps.value.exit_code = ExitStatus(last.cmd)

\* C35: on normal completion every line the command printed is in the
\* stdout returned
C35_StdoutKeepsCommandLines ==
    CompletedNormally =>
        \A i \in 1..Len(last.printed) :
            \E j \in 1..Len(last.ps.value.stdout) :
                IsPrefix(last.printed[i], last.ps.value.stdout[j])
\* C36: no shell process exists before the first command is executed:
\* constructing StatefulShell leaves each session without a process
C36_NoProcessBeforeFirstCommand ==
    submitted = 0 => \A s \in Sessions : ~proc[s].alive /\ proc[s].gen = 0
\* C37: when a StatefulShell.execute that reached the session returns (the
\* command completed, was cancelled at an interactive prompt, or timed out
\* and was interrupted) and the session's process lives, current_dir is the
\* working directory of that process, which runs the next command
C37_CurrentDirIsProcessDir ==
    [][ ( /\ last' # last
          /\ last'.thread \in ExecutorWorkers
          /\ last'.st.kind = "returned"
          /\ proc'["async"].alive ) =>
            current_dir' = proc'["async"].cwd
      ]_vars
\* the sync_context calls of the turn before that returned a result
SyncsOfLastTurn ==
    {i \in 1..Len(response.tool_calls) :
        /\ response.tool_calls[i].name = "sync_context"
        /\ i <= Len(tool_results)
        /\ ~IsPrefix(<<"Tool execution error: ">>, tool_results[i].content)}

\* C38: the system context of an open request is the context document as
\* it is at that round; when sync_context was executed in the round before,
\* the request carries the content that call wrote
C38_SystemContextReadEveryRound ==
    (mode = "invoke" /\ pc = "stream") =>
        /\ system_prompt = context
        /\ (round_num >= 1 /\ SyncsOfLastTurn # {}) =>
              LET i == CHOOSE i \in SyncsOfLastTurn : \A j \in SyncsOfLastTurn : j <= i
              IN  system_prompt = ValueOf(response.tool_calls[i].input, "new_context_content").s

\* the second round is open; the first executed sync_context, which
\* replaced the default context
C38_Witness ==
    /\ LaterRoundOpen
    /\ SyncsOfLastTurn # {}
    /\ system_prompt = <<"c">>
    /\ system_prompt # DefaultContext
\* C39: one invoke_stream call stops asking the service after a round
\* limit: a turn that ends with stop reason tool_use and a tool call is not
\* continued for ever.  The model lets a call go MaxDepth activations deep;
\* a call with a round limit stays below that depth
C39_StreamRoundsBounded ==
    mode = "stream" => requests < MaxDepth
\* commands submitted through execute that have not returned
InFlight == queue # <<>> \/ \E w \in ExecutorWorkers : run[w].pc # "idle"

\* C40: close does not end the shell process while a command submitted
\* through execute is running or queued, and no process is left once close
\* has returned
C40_CloseWaitsForCommands ==
    [][ /\ (Close /\ InFlight) => proc'["async"] = proc["async"]
        /\ CloseReturn => ~proc'["async"].alive
      ]_vars
====
